---- MODULE Spec2Model ----
(***************************************************************************)
(* Model of the OLED drivers of rpi-pico-libraries: the SSD1306 driver     *)
(* (src/ssd1306/ssd1306_i2c.c) and the SH1106 driver                       *)
(* (src/sh1106/sh1106_i2c.c).  The frame buffer is the caller's 1024-byte  *)
(* array; everything the drivers hand to the Pico SDK (I2C writes, GPIO    *)
(* calls) and every assignment to device->initialized is appended, in      *)
(* program order, to `log`, the effect trace of the last call.             *)
(***************************************************************************)
EXTENDS Integers, Sequences, FiniteSets, TLC

VARIABLES
    variant,    \* which driver the program is built with: "SSD1306" or "SH1106"
    ndebug,     \* TRUE when the build defines NDEBUG (assert() compiled out)
    buf,        \* the caller's frame buffer, byte index 0 .. BUF_LEN-1
    prevBuf,    \* history: the frame buffer when the last call was entered
    aborted,    \* an assert() failed: the program has stopped
    memFault,   \* a byte outside the frame buffer was read or written
    nOps,       \* number of drawing calls made so far
    lastOp,     \* history: the last call, [op |-> name, args |-> <<...>>]
    dev,        \* ssd1306_device_t: [config |-> ..., initialized |-> BOOLEAN]
    gpio,       \* pad state of the two bus pins: pin -> [func, dir, out, pullup]
    area,       \* struct render_area / struct sh1106_render_area
    prevHw,     \* history: [dev, gpio] when the last call was entered
    log,        \* history: effect trace of the last call
    calls,      \* history: the calls the last drawing call made, in program order
    pwr,        \* peripheral_power_t, the pad of its gate pin, the last return value
    ble,        \* ble_ctx, the controller's link and advertising, callback history
    tcp         \* tcp_client_t, the lwIP pcbs, the position inside tcp_client_send

vars == <<variant, ndebug, buf, prevBuf, aborted, memFault, nOps, lastOp,
          dev, gpio, area, prevHw, log, calls, pwr, ble, tcp>>

\* The variables of the display drivers, and those of the other libraries.
oledVars == <<variant, ndebug, buf, prevBuf, aborted, memFault,
              dev, gpio, area, prevHw, log, calls>>

(***************************************************************************)
(* Program constants                                                       *)
(***************************************************************************)
WIDTH == 128
HEIGHT == 64
PAGE_HEIGHT == 8
NUM_PAGES == HEIGHT \div PAGE_HEIGHT
BUF_LEN == NUM_PAGES * WIDTH
SH1106_COLUMN_OFFSET == 2
SSD1306_I2C_CLK == 400
SH1106_I2C_ADDR == 60

\* Command opcodes of the SSD1306 driver
SSD1306_SET_MEM_MODE == 32
SSD1306_SET_COL_ADDR == 33
SSD1306_SET_PAGE_ADDR == 34
SSD1306_SET_HORIZ_SCROLL == 38
SSD1306_SET_SCROLL == 46
SSD1306_SET_DISP_START_LINE == 64
SSD1306_SET_CONTRAST == 129
SSD1306_SET_CHARGE_PUMP == 141
SSD1306_SET_SEG_REMAP == 160
SSD1306_SET_ENTIRE_ON == 164
SSD1306_SET_NORM_DISP == 166
SSD1306_SET_MUX_RATIO == 168
SSD1306_SET_DISP == 174
SSD1306_SET_COM_OUT_DIR == 192
SSD1306_SET_DISP_OFFSET == 211
SSD1306_SET_DISP_CLK_DIV == 213
SSD1306_SET_PRECHARGE == 217
SSD1306_SET_COM_PIN_CFG == 218
SSD1306_SET_VCOM_DESEL == 219

\* Command opcodes of the SH1106 driver
SH1106_SET_COL_ADDR_LOW == 0
SH1106_SET_COL_ADDR_HIGH == 16
SH1106_SET_MEM_MODE == 32
SH1106_SET_COL_ADDR == 33
SH1106_SET_PAGE_ADDR == 34
SH1106_SET_HORIZ_SCROLL == 38
SH1106_SET_SCROLL == 46
SH1106_SET_PAGE_START == 176
SH1106_SET_DISP_START_LINE == 64
SH1106_SET_CONTRAST == 129
SH1106_SET_CHARGE_PUMP == 141
SH1106_SET_SEG_REMAP == 160
SH1106_SET_ENTIRE_ON == 164
SH1106_SET_NORM_DISP == 166
SH1106_SET_MUX_RATIO == 168
SH1106_SET_DISP == 174
SH1106_SET_COM_OUT_DIR == 192
SH1106_SET_DISP_OFFSET == 211
SH1106_SET_DISP_CLK_DIV == 213
SH1106_SET_PRECHARGE == 217
SH1106_SET_COM_PIN_CFG == 218
SH1106_SET_VCOM_DESEL == 219
SH1106_SET_PUMP_VOLTAGE == 48

\* Control bytes that open an I2C write: Co = 1, D/C = 0 announces a command,
\* 0x40 announces display data.
CTRL_CMD == 128
CTRL_DATA == 64

(***************************************************************************)
(* Bounds of the model                                                     *)
(***************************************************************************)
MaxOps == 2

\* Number of draw_line calls in a run.
MaxLineOps == 1

\* Number of text calls in a run.
MaxTextOps == 1

\* The loop of draw_line is unrolled 2^LoopDoublings = 256 times: more passes
\* than the longest line between the end points tried has points.
LoopDoublings == 8

\* Coordinates tried by the drawing calls: both sides of every edge.
XS == {-1, 0, WIDTH - 1, WIDTH}
YS == {-1, 0, 9, HEIGHT - 1, HEIGHT}

Variants == {"SSD1306", "SH1106"}

(***************************************************************************)
(* C integer arithmetic                                                    *)
(***************************************************************************)
\* abs() of <stdlib.h>
Abs(a) == IF a < 0 THEN -a ELSE a

\* C's / on int: truncation toward zero.
CDiv(a, b) == IF a >= 0 THEN a \div b ELSE -((-a) \div b)

\* C's % on int: the sign follows the dividend.
CMod(a, b) == a - b * CDiv(a, b)

Pow2(k) == IF k = 0 THEN 1 ELSE IF k = 1 THEN 2 ELSE IF k = 2 THEN 4
           ELSE IF k = 3 THEN 8 ELSE IF k = 4 THEN 16 ELSE IF k = 5 THEN 32
           ELSE IF k = 6 THEN 64 ELSE 128

\* Bit k of byte b.
Bit(b, k) == (b \div Pow2(k)) % 2

\* byte |= 1 << k
SetBit(b, k) == IF Bit(b, k) = 1 THEN b ELSE b + Pow2(k)

\* byte &= ~(1 << k)
ClearBit(b, k) == IF Bit(b, k) = 1 THEN b - Pow2(k) ELSE b

(***************************************************************************)
(* Frame buffer and pixel primitives                                       *)
(***************************************************************************)
BufIdx == 0 .. (BUF_LEN - 1)

\* SSD1306_CLEAR_BUFFER / SH1106_CLEAR_BUFFER
ClearBuffer == [i \in BufIdx |-> 0]

\* SSD1306_FILL_BUFFER / SH1106_FILL_BUFFER
FillBuffer == [i \in BufIdx |-> 255]

InBounds(x, y) == x >= 0 /\ x < WIDTH /\ y >= 0 /\ y < HEIGHT

\* A wrong row stride: 8 bytes per page instead of WIDTH.
ByteIdxBad(x, y) == CDiv(y, 8) * 8 + x

\* int byte_idx = (y / 8) * BytesPerRow + x;
ByteIdx(x, y) == CDiv(y, 8) * WIDTH + x

\* The read-modify-write of one byte of the buffer.
WriteBit(b, idx, k, on) ==
    [b EXCEPT ![idx] = IF on THEN SetBit(b[idx], k) ELSE ClearBit(b[idx], k)]

\* One outcome of a pixel call: the buffer, and whether the call aborted the
\* program or touched memory outside the buffer.
Outcome(b, ab, mf) == [buf |-> b, aborted |-> ab, memFault |-> mf]

\* SH1106_SetPixel: the bounds check returns early, the rest is the byte update.
SH1106_SetPixel(b, x, y, on) ==
    IF x < 0 \/ x >= WIDTH \/ y < 0 \/ y >= HEIGHT
    THEN {Outcome(b, FALSE, FALSE)}
    ELSE {Outcome(WriteBit(b, ByteIdx(x, y), CMod(y, 8), on), FALSE, FALSE)}

\* SetPixel of the SSD1306 driver: assert() guards the coordinates.  With the
\* assertion compiled in, a failed assertion stops the program.  With NDEBUG
\* the update runs unguarded: the index may fall on another byte of the
\* buffer or outside it, and a negative y shifts by a negative count, which
\* is undefined: any single-bit mask, or none, may result.
SetPixel(b, x, y, on) ==
    IF InBounds(x, y)
    THEN {Outcome(WriteBit(b, ByteIdx(x, y), CMod(y, 8), on), FALSE, FALSE)}
    ELSE IF ~ndebug
    THEN {Outcome(b, TRUE, FALSE)}
    ELSE IF ByteIdx(x, y) \notin BufIdx
    THEN {Outcome(b, FALSE, TRUE)}
    ELSE IF CMod(y, 8) >= 0
    THEN {Outcome(WriteBit(b, ByteIdx(x, y), CMod(y, 8), on), FALSE, FALSE)}
    ELSE {Outcome(b, FALSE, FALSE)} \cup
         {Outcome(WriteBit(b, ByteIdx(x, y), k, on), FALSE, FALSE) : k \in 0 .. 7}

\* The pixel primitive of the driver the program is built with.
PixelOutcomes(b, x, y, on) ==
    IF variant = "SSD1306" THEN SetPixel(b, x, y, on)
                           ELSE SH1106_SetPixel(b, x, y, on)

(***************************************************************************)
(* Initial states                                                          *)
(***************************************************************************)
NoOp == [op |-> "none", args |-> <<>>]

PinReset == [func |-> "NULL", dir |-> "in", out |-> 0, pullup |-> FALSE]

\* SSD1306_FULL_SCREEN_AREA() / SH1106_FULL_SCREEN_AREA()
FullScreenArea ==
    [start_col |-> 0, end_col |-> WIDTH - 1,
     start_page |-> 0, end_page |-> NUM_PAGES - 1, buflen |-> 0]

\* ssd1306_i2c_create_config(sda_pin, scl_pin, i2c_port)
ssd1306_i2c_create_config(sda_pin, scl_pin) ==
    [i2c_address |-> 60, sda_pin |-> sda_pin, scl_pin |-> scl_pin,
     baudrate |-> SSD1306_I2C_CLK * 1000]

\* The configuration the caller passes to SSD1306_init.
Config == ssd1306_i2c_create_config(16, 17)

\* A device object in static storage before SSD1306_init: all fields zero.
ZeroDevice ==
    [config |-> [i2c_address |-> 0, sda_pin |-> 0, scl_pin |-> 0, baudrate |-> 0],
     initialized |-> FALSE]

Pins == {Config.sda_pin, Config.scl_pin}

\* A peripheral_power_t before peripheral_power_init: initialized is false,
\* power_enabled is whatever the storage held; the pad of the gate pin is in
\* its reset state.
PowerBefore(power_enabled) ==
    [config |-> [gate_pin |-> 0, start_enabled |-> FALSE],
     initialized |-> FALSE, power_enabled |-> power_enabled,
     gate |-> [func |-> "NULL", dir |-> "in", out |-> 0], ret |-> "none"]

\* static ble_nordic_uart_context_t ble_ctx = { ... }, with the controller off.
BleStatic ==
    [state |-> "DISABLED", notifications_enabled |-> FALSE, connection_handle |-> 0,
     connection_callback |-> "null", device_name |-> 0,
     message_buffer |-> <<>>, message_length |-> 0,
     \* the controller: HCI power state, the last gap_advertisements_enable
     \* argument, the link to a client, the client's subscription on that link
     hci |-> "off", adv |-> FALSE, link |-> "none", cccd |-> FALSE,
     \* history: callback arguments in order, callback(true) calls on the
     \* current link, att_server_notify calls, stop returned and no init since,
     \* the last boolean return value, the last result of att_read_callback
     cbs |-> <<>>, linkTrues |-> 0, notifies |-> 0, stopped |-> FALSE,
     ret |-> FALSE, copied |-> 0]

MaxTcpSends == 2

\* The pcbs tcp_new can hand out, and one more address: whatever the pcb field
\* of a freshly malloc'ed client holds when it is not NULL.
WildPcb == MaxTcpSends + 1
PcbIds == 1 .. WildPcb

\* No tcp_client_t has been created.  pc is the position of the program:
\* "none" (no client), "idle" (between calls), "connect_wait" and
\* "response_wait" (inside the two polling loops of tcp_client_send),
\* "destroyed".  pcb is 0 for NULL.
NoClient ==
    [pc |-> "none", pcb |-> 0, connected |-> FALSE, complete |-> FALSE, success |-> FALSE,
     \* lwIP: the life of every pcb; time_reached() of the loop being waited in
     pcbs |-> [i \in PcbIds |-> IF i = WildPcb THEN "invalid" ELSE "unused"],
     deadline |-> FALSE,
     \* history: sends started, the last return value, whether the connection
     \* attempt of the last send failed, every tcp_close / tcp_abort call
     sends |-> 0, ret |-> 0, connFailed |-> FALSE, releases |-> <<>>]

\* The libraries that the display programs do not use stay as they start.
OthersIdle ==
    /\ pwr = PowerBefore(FALSE)
    /\ ble = BleStatic
    /\ tcp = NoClient

InitCommon ==
    /\ variant \in Variants
    /\ aborted = FALSE
    /\ memFault = FALSE
    /\ nOps = 0
    /\ lastOp = NoOp
    /\ dev = ZeroDevice
    /\ gpio = [p \in Pins |-> PinReset]
    /\ area = FullScreenArea
    /\ prevHw = [dev |-> dev, gpio |-> gpio]
    /\ log = <<>>
    /\ calls = <<>>

\* The caller owns the buffer and starts from a cleared or a filled one.
PixelInit ==
    /\ InitCommon
    /\ ndebug \in BOOLEAN
    /\ buf \in {ClearBuffer, FillBuffer}
    /\ prevBuf = buf
    /\ OthersIdle

(***************************************************************************)
(* Drawing calls                                                           *)
(***************************************************************************)
\* The program goes on as long as no assertion has stopped it and no wild
\* access has made its further behaviour undefined.
Running == ~aborted /\ ~memFault

DoSetPixel(x, y, on) ==
    /\ Running
    /\ nOps < MaxOps
    /\ \E o \in PixelOutcomes(buf, x, y, on) :
         /\ buf' = o.buf
         /\ aborted' = o.aborted
         /\ memFault' = o.memFault
    /\ prevBuf' = buf
    /\ nOps' = nOps + 1
    /\ lastOp' = [op |-> "SetPixel", args |-> <<x, y, on>>]
    /\ UNCHANGED <<variant, ndebug, dev, gpio, area, prevHw, log, calls, pwr, ble, tcp>>

PixelNext ==
    \E x \in XS, y \in YS, on \in BOOLEAN : DoSetPixel(x, y, on)

PixelSpec == PixelInit /\ [][PixelNext]_vars

(***************************************************************************)
(* Line drawing: Bresenham's walk over the pixel primitive                 *)
(***************************************************************************)
\* The pixel primitive the drawing code of driver drv calls.
Pixel(drv, b, x, y, on) ==
    IF drv = "SSD1306" THEN SetPixel(b, x, y, on)
                       ELSE SH1106_SetPixel(b, x, y, on)

\* A drawing call in progress: the buffer, whether the program was stopped or
\* left the buffer, the pixel calls made so far, the loop variables x0, y0
\* and err, and whether the loop has been left.
Walk(b, ab, mf, cs, x0, y0, err, done) ==
    [buf |-> b, aborted |-> ab, memFault |-> mf, calls |-> cs,
     x0 |-> x0, y0 |-> y0, err |-> err, done |-> done]

\* One pass of the body of the while (true) loop of DrawLine /
\* SH1106_DrawLine; L holds the values fixed before the loop.  The loop is
\* left at the end point, or where the pixel primitive stops the program.
LineBody(drv, w, L) ==
    { LET cs == Append(w.calls, <<w.x0, w.y0>>)
          e2 == 2 * w.err
          stepx == e2 >= L.dy
          stepy == e2 <= L.dx
      IN  IF p.aborted \/ p.memFault \/ (w.x0 = L.x1 /\ w.y0 = L.y1)
          THEN Walk(p.buf, p.aborted, p.memFault, cs, w.x0, w.y0, w.err, TRUE)
          ELSE Walk(p.buf, FALSE, FALSE, cs,
                    IF stepx THEN w.x0 + L.sx ELSE w.x0,
                    IF stepy THEN w.y0 + L.sy ELSE w.y0,
                    w.err + (IF stepx THEN L.dy ELSE 0) + (IF stepy THEN L.dx ELSE 0),
                    FALSE)
      : p \in Pixel(drv, w.buf, w.x0, w.y0, L.on) }

\* 2^k passes of the loop over every walk still in progress.
RECURSIVE LineLoop(_, _, _, _)
LineLoop(k, drv, W, L) ==
    IF k = 0
    THEN UNION { IF w.done THEN {w} ELSE LineBody(drv, w, L) : w \in W }
    ELSE \* the first half is computed before the second half starts
         LET half == LineLoop(k - 1, drv, W, L)
         IN  IF half = {} THEN {} ELSE LineLoop(k - 1, drv, half, L)

\* The locals of DrawLine before its loop.
LineSetup(x0, y0, x1, y1, on) ==
    [x1 |-> x1, y1 |-> y1, on |-> on,
     dx |-> Abs(x1 - x0), sx |-> IF x0 < x1 THEN 1 ELSE -1,
     dy |-> -Abs(y1 - y0), sy |-> IF y0 < y1 THEN 1 ELSE -1]

LineStart(b, x0, y0, x1, y1) ==
    { Walk(b, FALSE, FALSE, <<>>, x0, y0, Abs(x1 - x0) - Abs(y1 - y0), FALSE) }

\* A line routine that ignores `on` and always lights the pixels.
DrawLineAlwaysOn(b, x0, y0, x1, y1, on) ==
    LineLoop(LoopDoublings, "SSD1306", LineStart(b, x0, y0, x1, y1),
             LineSetup(x0, y0, x1, y1, TRUE))

\* DrawLine(buf, x0, y0, x1, y1, on)
DrawLine(b, x0, y0, x1, y1, on) ==
    LineLoop(LoopDoublings, "SSD1306", LineStart(b, x0, y0, x1, y1),
             LineSetup(x0, y0, x1, y1, on))

\* SH1106_DrawLine(buf, x0, y0, x1, y1, on)
SH1106_DrawLine(b, x0, y0, x1, y1, on) ==
    LineLoop(LoopDoublings, "SH1106", LineStart(b, x0, y0, x1, y1),
             LineSetup(x0, y0, x1, y1, on))

\* End points tried: corners, an inner point, and points off each edge.
LinePts == { <<0, 0>>, <<WIDTH - 1, HEIGHT - 1>>, <<5, 9>>,
             <<-2, 3>>, <<0, -1>>, <<WIDTH + 1, HEIGHT - 2>> }

DoDrawLine(x0, y0, x1, y1, on) ==
    /\ Running
    /\ nOps < MaxLineOps
    /\ \E o \in (IF variant = "SSD1306" THEN DrawLine(buf, x0, y0, x1, y1, on)
                                        ELSE SH1106_DrawLine(buf, x0, y0, x1, y1, on)) :
         /\ buf' = o.buf
         /\ aborted' = o.aborted
         /\ memFault' = o.memFault
         /\ calls' = o.calls
    /\ prevBuf' = buf
    /\ nOps' = nOps + 1
    /\ lastOp' = [op |-> "DrawLine", args |-> <<x0, y0, x1, y1, on>>]
    /\ UNCHANGED <<variant, ndebug, dev, gpio, area, prevHw, log, pwr, ble, tcp>>

LineNext ==
    \E p0 \in LinePts, p1 \in LinePts, on \in BOOLEAN :
        DoDrawLine(p0[1], p0[2], p1[1], p1[2], on)

LineSpec == PixelInit /\ [][LineNext]_vars

(***************************************************************************)
(* Font (sh1106_font.h; the SSD1306 driver includes the same table and     *)
(* lookup under the name ssd1306_font.h)                                   *)
(***************************************************************************)
\* static uint8_t font[]: 51 glyphs of 8 column bytes, bit 0 the top pixel.
font == <<
    0, 0, 0, 0, 0, 0, 0, 0,    \* 0
    124, 18, 17, 17, 17, 18, 124, 0,    \* 1
    127, 73, 73, 73, 73, 73, 54, 0,    \* 2
    62, 65, 65, 65, 65, 65, 34, 0,    \* 3
    127, 65, 65, 65, 65, 65, 62, 0,    \* 4
    127, 73, 73, 73, 73, 73, 65, 0,    \* 5
    127, 9, 9, 9, 9, 9, 1, 0,    \* 6
    62, 65, 65, 73, 73, 73, 58, 0,    \* 7
    127, 8, 8, 8, 8, 8, 127, 0,    \* 8
    65, 65, 65, 127, 65, 65, 65, 0,    \* 9
    32, 64, 64, 64, 64, 64, 63, 0,    \* 10
    127, 8, 8, 20, 34, 65, 0, 0,    \* 11
    127, 64, 64, 64, 64, 64, 64, 0,    \* 12
    127, 2, 4, 8, 4, 2, 127, 0,    \* 13
    127, 2, 4, 8, 16, 32, 127, 0,    \* 14
    62, 65, 65, 65, 65, 65, 62, 0,    \* 15
    127, 9, 9, 9, 9, 9, 6, 0,    \* 16
    62, 65, 65, 81, 33, 65, 94, 0,    \* 17
    127, 9, 9, 25, 41, 73, 6, 0,    \* 18
    38, 73, 73, 73, 73, 73, 50, 0,    \* 19
    1, 1, 1, 127, 1, 1, 1, 0,    \* 20
    63, 64, 64, 64, 64, 64, 63, 0,    \* 21
    15, 16, 32, 64, 32, 16, 15, 0,    \* 22
    63, 64, 32, 24, 32, 64, 63, 0,    \* 23
    65, 34, 20, 8, 20, 34, 65, 0,    \* 24
    7, 8, 16, 96, 16, 8, 7, 0,    \* 25
    65, 97, 81, 73, 69, 67, 65, 0,    \* 26
    62, 81, 73, 69, 67, 65, 62, 0,    \* 27
    0, 66, 66, 127, 64, 64, 0, 0,    \* 28
    66, 97, 81, 73, 69, 67, 66, 0,    \* 29
    34, 65, 73, 73, 73, 73, 54, 0,    \* 30
    24, 20, 18, 127, 16, 16, 16, 0,    \* 31
    39, 69, 69, 69, 69, 69, 57, 0,    \* 32
    60, 74, 73, 73, 73, 73, 48, 0,    \* 33
    1, 1, 113, 9, 5, 3, 1, 0,    \* 34
    54, 73, 73, 73, 73, 73, 54, 0,    \* 35
    6, 73, 73, 73, 73, 41, 30, 0,    \* 36
    0, 0, 0, 96, 96, 0, 0, 0,    \* 37
    0, 0, 0, 160, 96, 0, 0, 0,    \* 38
    35, 19, 8, 100, 98, 54, 73, 0,    \* 39
    0, 8, 8, 8, 8, 8, 0, 0,    \* 40
    0, 0, 54, 54, 0, 0, 0, 0,    \* 41
    0, 0, 86, 54, 0, 0, 0, 0,    \* 42
    0, 0, 95, 0, 0, 0, 0, 0,    \* 43
    2, 1, 81, 9, 6, 0, 0, 0,    \* 44
    32, 16, 8, 4, 2, 1, 0, 0,    \* 45
    0, 28, 34, 65, 0, 0, 0, 0,    \* 46
    0, 65, 34, 28, 0, 0, 0, 0,    \* 47
    8, 8, 62, 8, 8, 0, 0, 0,    \* 48
    20, 20, 20, 20, 20, 0, 0, 0,    \* 49
    128, 128, 128, 128, 128, 128, 128, 0    \* 50
>>

\* toupper() of <ctype.h> in the "C" locale, on an unsigned char value.
toupper(c) == IF c >= 97 /\ c <= 122 THEN c - 32 ELSE c

\* A lookup that falls through to the character code for unknown characters.
GetFontIndexNoFallback(ch) ==
    IF ch >= 65 /\ ch <= 90 THEN ch - 65 + 1
    ELSE IF ch >= 97 /\ ch <= 122 THEN ch - 97 + 1
    ELSE IF ch >= 48 /\ ch <= 57 THEN ch - 48 + 27
    ELSE IF ch = 32 THEN 0
    ELSE ch

\* static inline int GetFontIndex(uint8_t ch)
GetFontIndex(ch) ==
    IF ch >= 65 /\ ch <= 90 THEN ch - 65 + 1
    ELSE IF ch >= 97 /\ ch <= 122 THEN ch - 97 + 1
    ELSE IF ch >= 48 /\ ch <= 57 THEN ch - 48 + 27
    ELSE IF ch = 32 THEN 0
    ELSE IF ch = 46 THEN 37
    ELSE IF ch = 44 THEN 38
    ELSE IF ch = 37 THEN 39
    ELSE IF ch = 45 THEN 40
    ELSE IF ch = 58 THEN 41
    ELSE IF ch = 59 THEN 42
    ELSE IF ch = 33 THEN 43
    ELSE IF ch = 63 THEN 44
    ELSE IF ch = 47 THEN 45
    ELSE IF ch = 40 THEN 46
    ELSE IF ch = 41 THEN 47
    ELSE IF ch = 43 THEN 48
    ELSE IF ch = 61 THEN 49
    ELSE IF ch = 95 THEN 50
    ELSE 0

\* ch = toupper(ch); int font_idx = GetFontIndex(ch);  with ch a uint8_t
FontIndexOf(ch) == GetFontIndex(toupper(ch) % 256)

Bytes == 0 .. 255

\* The lookup applied to one byte value; the result is kept in lastOp.
DoFontLookup(ch) ==
    /\ lastOp' = [op |-> "GetFontIndex", args |-> <<ch, FontIndexOf(ch)>>]
    /\ UNCHANGED <<variant, ndebug, buf, prevBuf, aborted, memFault, nOps,
                   dev, gpio, area, prevHw, log, calls, pwr, ble, tcp>>

FontNext == \E ch \in Bytes : DoFontLookup(ch)

FontInit == PixelInit /\ variant = "SH1106" /\ ~ndebug /\ buf = ClearBuffer

FontSpec == FontInit /\ [][FontNext]_vars

(***************************************************************************)
(* Text: WriteChar, WriteString, WriteLines and WriteCentered              *)
(***************************************************************************)
\* Conversion of an int to int16_t (the x and y parameters of the text calls).
Int16(v) == ((v + 32768) % 65536) - 32768

\* A text call in progress: the buffer, whether the program was stopped or
\* left the buffer, and the calls made so far.
TextOutcome(b, ab, mf, cs) == [buf |-> b, aborted |-> ab, memFault |-> mf, calls |-> cs]

Stopped(o) == o.aborted \/ o.memFault

\* A call as it is recorded in `calls`.
Call(f, x, y, c) == [f |-> f, x |-> x, y |-> y, c |-> c]

\* for (row ...; row < 8; row++): the rows of one glyph column at pixel_x = px.
RECURSIVE CharRows(_, _, _, _, _, _)
CharRows(drv, O, px, y, font_col, row) ==
    IF row = 8 \/ O = {} THEN O
    ELSE CharRows(drv,
             UNION { IF Stopped(o) THEN {o}
                     ELSE IF Bit(font_col, row) = 1 /\ px < WIDTH /\ y + row < HEIGHT
                     THEN { [o EXCEPT !.buf = p.buf, !.aborted = p.aborted,
                                      !.memFault = p.memFault]
                            : p \in Pixel(drv, o.buf, px, y + row, TRUE) }
                     ELSE {o}
                   : o \in O },
             px, y, font_col, row + 1)

\* A column loop that reads the glyph from its last column to its first.
RECURSIVE CharColsMirrored(_, _, _, _, _, _)
CharColsMirrored(drv, O, x, y, font_idx, col) ==
    IF col = 8 \/ O = {} THEN O
    ELSE CharColsMirrored(drv,
             CharRows(drv, O, x + col, y, font[font_idx * 8 + (7 - col) + 1], 0),
             x, y, font_idx, col + 1)

\* for (col ...; col < 8; col++): the columns of the glyph font_idx.
RECURSIVE CharCols(_, _, _, _, _, _)
CharCols(drv, O, x, y, font_idx, col) ==
    IF col = 8 \/ O = {} THEN O
    ELSE CharCols(drv,
             CharRows(drv, O, x + col, y, font[font_idx * 8 + col + 1], 0),
             x, y, font_idx, col + 1)

\* A character routine without the test of the right edge.
WriteCharNoRightEdge(o, x, y, ch) ==
    IF x < 0 \/ y < 0 \/ y > HEIGHT - 8 THEN {o}
    ELSE CharCols("SSD1306", {o}, x, y, FontIndexOf(ch), 0)

\* WriteChar(buf, x, y, ch); o holds the buffer.
WriteChar(o, x, y, ch) ==
    IF x < 0 \/ x > WIDTH - 8 \/ y < 0 \/ y > HEIGHT - 8 THEN {o}
    ELSE CharCols("SSD1306", {o}, x, y, FontIndexOf(ch), 0)

\* SH1106_WriteChar(buf, x, y, ch)
SH1106_WriteChar(o, x, y, ch) ==
    IF x < 0 \/ x > WIDTH - 8 \/ y < 0 \/ y > HEIGHT - 8 THEN {o}
    ELSE CharCols("SH1106", {o}, x, y, FontIndexOf(ch), 0)

\* The character routine the string code of driver drv calls, recorded.
CharCall(drv, o, x, y, ch) ==
    LET r == [o EXCEPT !.calls = Append(o.calls, Call("WriteChar", x, y, ch))]
    IN  IF drv = "SSD1306" THEN WriteChar(r, x, y, ch) ELSE SH1106_WriteChar(r, x, y, ch)

\* while (*str && current_x < WIDTH - 8) { WriteChar; current_x += 8; str++; }
RECURSIVE StringLoop(_, _, _, _, _)
StringLoop(drv, O, current_x, y, str) ==
    IF str = <<>> \/ ~(current_x < WIDTH - 8) \/ O = {} THEN O
    ELSE StringLoop(drv,
             UNION { IF Stopped(o) THEN {o}
                     ELSE CharCall(drv, o, Int16(current_x), y, Head(str))
                   : o \in O },
             current_x + 8, y, Tail(str))

\* A string routine that advances before it draws the first character.
WriteStringShifted(o, x, y, str) ==
    StringLoop("SSD1306",
               {[o EXCEPT !.calls = Append(o.calls, Call("WriteString", x, y, str))]},
               x + 8, y, str)

\* WriteString(buf, x, y, str); str is the sequence of bytes before the NUL.
WriteString(o, x, y, str) ==
    StringLoop("SSD1306",
               {[o EXCEPT !.calls = Append(o.calls, Call("WriteString", x, y, str))]},
               x, y, str)

\* SH1106_WriteString(buf, x, y, str)
SH1106_WriteString(o, x, y, str) ==
    StringLoop("SH1106",
               {[o EXCEPT !.calls = Append(o.calls, Call("WriteString", x, y, str))]},
               x, y, str)

StringCall(drv, o, x, y, str) ==
    IF drv = "SSD1306" THEN WriteString(o, x, y, str) ELSE SH1106_WriteString(o, x, y, str)

\* for (i ...; i < line_count; i++) { if (current_y > HEIGHT - 8) break; ... }
RECURSIVE LinesLoop(_, _, _, _, _, _, _, _)
LinesLoop(drv, O, x, current_y, lines, i, line_count, line_spacing) ==
    IF ~(i < line_count) \/ current_y > HEIGHT - 8 \/ O = {} THEN O
    ELSE LinesLoop(drv,
             UNION { IF Stopped(o) THEN {o}
                     ELSE StringCall(drv, o, x, Int16(current_y), lines[i + 1])
                   : o \in O },
             x, current_y + line_spacing, lines, i + 1, line_count, line_spacing)

\* A lines routine that advances by twice the spacing.
WriteLinesDoubleSpacing(o, x, y, lines, line_count, line_spacing) ==
    LinesLoop("SSD1306", {o}, x, y, lines, 0, line_count, 2 * line_spacing)

\* WriteLines(buf, x, y, lines, line_count, line_spacing)
WriteLines(o, x, y, lines, line_count, line_spacing) ==
    LinesLoop("SSD1306", {o}, x, y, lines, 0, line_count, line_spacing)

\* SH1106_WriteLines(buf, x, y, lines, line_count, line_spacing)
SH1106_WriteLines(o, x, y, lines, line_count, line_spacing) ==
    LinesLoop("SH1106", {o}, x, y, lines, 0, line_count, line_spacing)

\* int x = (WIDTH - str_len * 8) / 2; if (x < 0) x = 0;
CenterX(str_len) ==
    LET x == CDiv(WIDTH - str_len * 8, 2) IN IF x < 0 THEN 0 ELSE x

\* A centring that forgets to halve the free width.
WriteCenteredNotHalved(o, y, str) ==
    WriteString(o, Int16(WIDTH - Len(str) * 8), y, str)

\* WriteCentered(buf, y, str)
WriteCentered(o, y, str) == WriteString(o, Int16(CenterX(Len(str))), y, str)

\* SH1106_WriteCentered(buf, y, str)
SH1106_WriteCentered(o, y, str) == SH1106_WriteString(o, Int16(CenterX(Len(str))), y, str)

\* Strings tried: "", "A", "3.7V", "hello", 16 and 17 letters.
Letters(n) == [i \in 1 .. n |-> 64 + i]

Strs == { <<>>, <<65>>, <<51, 46, 55, 86>>, <<104, 101, 108, 108, 111>>,
          Letters(16), Letters(17) }

\* The char *lines[] array tried with WriteLines.
Lines == << <<51, 46, 55, 86>>, <<65>>, <<104, 101, 108, 108, 111>> >>

\* Arguments tried by the text calls: both sides of every edge.
CharXS == {-1, 0, WIDTH - 8, WIDTH - 7}
CharYS == {-1, 0, 5, HEIGHT - 8, HEIGHT - 7}
Chars == {65, 95, 126}
StringXS == {-4, 0, WIDTH - 16, WIDTH - 8, WIDTH - 4}
StringYS == {5}
\* Where WriteString is tried: the edge positions on row 5, and the origin.
StringAt == (StringXS \X StringYS) \cup {<<0, 0>>}
LineYS == {-3, 40, HEIGHT - 8, HEIGHT - 7}
LineCounts == {0, 3}
LineSpacings == {-8, 0, 8, 12}

\* What every text call does to the model's state.
TextCall(name, args, O) ==
    /\ Running
    /\ nOps < MaxTextOps
    /\ \E o \in O :
         /\ buf' = o.buf
         /\ aborted' = o.aborted
         /\ memFault' = o.memFault
         /\ calls' = o.calls
    /\ prevBuf' = buf
    /\ nOps' = nOps + 1
    /\ lastOp' = [op |-> name, args |-> args]
    /\ UNCHANGED <<variant, ndebug, dev, gpio, area, prevHw, log, pwr, ble, tcp>>

\* The buffer the caller passes, with no call made yet.
Canvas == TextOutcome(buf, FALSE, FALSE, <<>>)

DoWriteChar(x, y, ch) ==
    TextCall("WriteChar", <<x, y, ch>>,
             IF variant = "SSD1306" THEN WriteChar(Canvas, x, y, ch)
                                    ELSE SH1106_WriteChar(Canvas, x, y, ch))

DoWriteString(x, y, str) ==
    TextCall("WriteString", <<x, y, str>>,
             IF variant = "SSD1306" THEN WriteString(Canvas, x, y, str)
                                    ELSE SH1106_WriteString(Canvas, x, y, str))

DoWriteLines(x, y, line_count, line_spacing) ==
    TextCall("WriteLines", <<x, y, line_count, line_spacing>>,
             IF variant = "SSD1306"
             THEN WriteLines(Canvas, x, y, Lines, line_count, line_spacing)
             ELSE SH1106_WriteLines(Canvas, x, y, Lines, line_count, line_spacing))

DoWriteCentered(y, str) ==
    TextCall("WriteCentered", <<y, str>>,
             IF variant = "SSD1306" THEN WriteCentered(Canvas, y, str)
                                    ELSE SH1106_WriteCentered(Canvas, y, str))

TextNext ==
    \/ \E x \in CharXS, y \in CharYS, ch \in Chars : DoWriteChar(x, y, ch)
    \/ \E p \in StringAt, str \in Strs : DoWriteString(p[1], p[2], str)
    \/ \E y \in LineYS, n \in LineCounts, sp \in LineSpacings :
           DoWriteLines(8, y, n, sp)
    \/ \E y \in StringYS, str \in Strs : DoWriteCentered(y, str)

TextSpec == PixelInit /\ [][TextNext]_vars

(***************************************************************************)
(* Effects handed to the Pico SDK, as they are recorded in `log`           *)
(***************************************************************************)
Ev(k, pin, s, n, bytes) == [k |-> k, pin |-> pin, s |-> s, n |-> n, bytes |-> bytes]

\* i2c_write_blocking(port, addr, bytes, len, false)
I2cWrite(addr, bytes) == Ev("i2c_write", 0, "", addr, bytes)

\* i2c_init(port, baudrate)
I2cInit(baud) == Ev("i2c_init", 0, "", baud, <<>>)

\* gpio_set_function(pin, GPIO_FUNC_I2C | GPIO_FUNC_SIO)
GpioSetFunction(pin, f) == Ev("gpio_set_function", pin, f, 0, <<>>)

\* gpio_pull_up(pin)
GpioPullUp(pin) == Ev("gpio_pull_up", pin, "", 0, <<>>)

\* gpio_set_dir(pin, GPIO_OUT)
GpioSetDir(pin, d) == Ev("gpio_set_dir", pin, d, 0, <<>>)

\* gpio_put(pin, value)
GpioPut(pin, v) == Ev("gpio_put", pin, "", v, <<>>)

\* device->initialized = v
SetInitialized(v) == Ev("initialized", 0, IF v THEN "true" ELSE "false", 0, <<>>)

\* The pad state after one SDK call.
ApplyGpioEv(g, e) ==
    IF e.pin \notin DOMAIN g THEN g
    ELSE IF e.k = "gpio_set_function" THEN [g EXCEPT ![e.pin].func = e.s]
    ELSE IF e.k = "gpio_pull_up" THEN [g EXCEPT ![e.pin].pullup = TRUE]
    ELSE IF e.k = "gpio_set_dir" THEN [g EXCEPT ![e.pin].dir = e.s]
    ELSE IF e.k = "gpio_put" THEN [g EXCEPT ![e.pin].out = e.n]
    ELSE g

RECURSIVE ApplyGpio(_, _)
ApplyGpio(g, evs) ==
    IF evs = <<>> THEN g ELSE ApplyGpio(ApplyGpioEv(g, Head(evs)), Tail(evs))

\* a | b on bytes
RECURSIVE OrFrom(_, _, _)
OrFrom(a, b, k) ==
    IF k > 7 THEN 0
    ELSE (IF Bit(a, k) = 1 \/ Bit(b, k) = 1 THEN Pow2(k) ELSE 0) + OrFrom(a, b, k + 1)

BitOr(a, b) == OrFrom(a, b, 0)

\* The first buflen bytes at the pointer the caller passes (the buffer start).
Slice(b, from, len) == [i \in 1 .. len |-> b[from + i - 1]]

Zeros(n) == [i \in 1 .. n |-> 0]

(***************************************************************************)
(* SSD1306 transport shim                                                  *)
(***************************************************************************)
SSD1306_send_cmd_raw(d, cmd) == <<I2cWrite(d.config.i2c_address, <<cmd>>)>>

\* uint8_t buf[2] = {0x80, cmd}; i2c_write_blocking(..., buf, 2, false);
SSD1306_send_cmd(d, cmd) == <<I2cWrite(d.config.i2c_address, <<CTRL_CMD, cmd>>)>>

RECURSIVE SSD1306_send_cmd_list(_, _)
SSD1306_send_cmd_list(d, cmds) ==
    IF cmds = <<>> THEN <<>>
    ELSE SSD1306_send_cmd(d, Head(cmds)) \o SSD1306_send_cmd_list(d, Tail(cmds))

\* temp_buf[0] = 0x40; memcpy(temp_buf + 1, buf, buflen); one write of buflen + 1
SSD1306_send_buf(d, b, buflen) ==
    <<I2cWrite(d.config.i2c_address, <<CTRL_DATA>> \o Slice(b, 0, buflen))>>

(***************************************************************************)
(* SH1106 transport shim (global bus i2c_default, fixed address)           *)
(***************************************************************************)
SH1106_send_cmd(cmd) == <<I2cWrite(SH1106_I2C_ADDR, <<CTRL_CMD, cmd>>)>>

RECURSIVE SH1106_send_cmd_list(_)
SH1106_send_cmd_list(cmds) ==
    IF cmds = <<>> THEN <<>>
    ELSE SH1106_send_cmd(Head(cmds)) \o SH1106_send_cmd_list(Tail(cmds))

\* SH1106_send_buf(&buf[from], buflen)
SH1106_send_buf(b, from, buflen) ==
    <<I2cWrite(SH1106_I2C_ADDR, <<CTRL_DATA>> \o Slice(b, from, buflen))>>

(***************************************************************************)
(* Render areas                                                            *)
(***************************************************************************)
\* area->buflen = (end_col - start_col + 1) * (end_page - start_page + 1)\* A length computation that takes the differences without the + 1.
calc_render_area_buflen_exclusive(a) ==
    [a EXCEPT !.buflen = (a.end_col - a.start_col) * (a.end_page - a.start_page)]


calc_render_area_buflen(a) ==
    [a EXCEPT !.buflen = (a.end_col - a.start_col + 1) * (a.end_page - a.start_page + 1)]

sh1106_calc_render_area_buflen(a) ==
    [a EXCEPT !.buflen = (a.end_col - a.start_col + 1) * (a.end_page - a.start_page + 1)]

\* Rectangles the caller uses: valid, inclusive, in [0, WIDTH-1] x [0, NUM_PAGES-1].
Cols == {0, 5, WIDTH - 1}
Pages == {0, NUM_PAGES - 1}

RectLen(a) == (a.end_col - a.start_col + 1) * (a.end_page - a.start_page + 1)

(***************************************************************************)
(* SSD1306 device operations: the effect trace of each call                *)
(***************************************************************************)
SSD1306_init_cmds ==
    << SSD1306_SET_DISP,
       SSD1306_SET_MEM_MODE, 0,
       SSD1306_SET_DISP_START_LINE,
       BitOr(SSD1306_SET_SEG_REMAP, 1),
       SSD1306_SET_MUX_RATIO, HEIGHT - 1,
       BitOr(SSD1306_SET_COM_OUT_DIR, 8),
       SSD1306_SET_DISP_OFFSET, 0,
       SSD1306_SET_COM_PIN_CFG, 18,
       SSD1306_SET_DISP_CLK_DIV, 128,
       SSD1306_SET_PRECHARGE, 241,
       SSD1306_SET_VCOM_DESEL, 48,
       SSD1306_SET_CONTRAST, 255,
       SSD1306_SET_ENTIRE_ON,
       SSD1306_SET_NORM_DISP,
       SSD1306_SET_CHARGE_PUMP, 20,
       BitOr(SSD1306_SET_SCROLL, 0),
       BitOr(SSD1306_SET_DISP, 1) >>

\* A flag raised too early: READY is recorded before the commands are sent.
SSD1306_init_early(devp, cfgp) ==
    IF devp = "null" \/ cfgp = "null" THEN <<>>
    ELSE LET d == [config |-> Config, initialized |-> FALSE] IN
         << SetInitialized(TRUE),
            I2cInit(d.config.baudrate),
            GpioSetFunction(d.config.sda_pin, "I2C"),
            GpioSetFunction(d.config.scl_pin, "I2C"),
            GpioPullUp(d.config.sda_pin),
            GpioPullUp(d.config.scl_pin) >>
         \o SSD1306_send_cmd_list(d, SSD1306_init_cmds)

\* SSD1306_init(device, config); devp, cfgp say whether each pointer is null.
SSD1306_init(devp, cfgp) ==
    IF devp = "null" \/ cfgp = "null" THEN <<>>
    ELSE LET d == [config |-> Config, initialized |-> FALSE] IN
         << SetInitialized(FALSE),
            I2cInit(d.config.baudrate),
            GpioSetFunction(d.config.sda_pin, "I2C"),
            GpioSetFunction(d.config.scl_pin, "I2C"),
            GpioPullUp(d.config.sda_pin),
            GpioPullUp(d.config.scl_pin) >>
         \o SSD1306_send_cmd_list(d, SSD1306_init_cmds)
         \o << SetInitialized(TRUE) >>

\* A deinit that safes the lines before it has cleared the display.
SSD1306_deinit_reordered(devp, d) ==
    IF devp = "null" \/ ~d.initialized THEN <<>>
    ELSE << GpioSetFunction(d.config.sda_pin, "SIO"),
            GpioSetFunction(d.config.scl_pin, "SIO"),
            GpioSetDir(d.config.sda_pin, "out"),
            GpioSetDir(d.config.scl_pin, "out"),
            GpioPut(d.config.sda_pin, 0),
            GpioPut(d.config.scl_pin, 0) >>
         \o SSD1306_send_cmd_raw(d, 174)
         \o << I2cWrite(d.config.i2c_address, <<CTRL_DATA>> \o Zeros(1025 - 1)) >>
         \o << SetInitialized(FALSE) >>

\* A deinit without its guard.
SSD1306_deinit_unguarded(devp, d) ==
    SSD1306_send_cmd_raw(d, 174)
    \o << I2cWrite(d.config.i2c_address, <<CTRL_DATA>> \o Zeros(1025 - 1)),
          GpioSetFunction(d.config.sda_pin, "SIO"),
          GpioSetFunction(d.config.scl_pin, "SIO"),
          GpioSetDir(d.config.sda_pin, "out"),
          GpioSetDir(d.config.scl_pin, "out"),
          GpioPut(d.config.sda_pin, 0),
          GpioPut(d.config.scl_pin, 0),
          SetInitialized(FALSE) >>

\* SSD1306_deinit(device): the display-off byte 0xAE is written on its own,
\* then clear_buffer[1025] = {0x40} (the control byte and 1024 zeros).
SSD1306_deinit(devp, d) ==
    IF devp = "null" \/ ~d.initialized THEN <<>>
    ELSE SSD1306_send_cmd_raw(d, 174)
         \o << I2cWrite(d.config.i2c_address, <<CTRL_DATA>> \o Zeros(1025 - 1)),
               GpioSetFunction(d.config.sda_pin, "SIO"),
               GpioSetFunction(d.config.scl_pin, "SIO"),
               GpioSetDir(d.config.sda_pin, "out"),
               GpioSetDir(d.config.scl_pin, "out"),
               GpioPut(d.config.sda_pin, 0),
               GpioPut(d.config.scl_pin, 0),
               SetInitialized(FALSE) >>

SSD1306_scroll(d, on) ==
    SSD1306_send_cmd_list(d,
        << BitOr(SSD1306_SET_HORIZ_SCROLL, 0), 0, 0, 0, NUM_PAGES - 1, 0, 255,
           BitOr(SSD1306_SET_SCROLL, IF on THEN 1 ELSE 0) >>)

\* A display toggle that is silent on a device that is not READY.
SSD1306_display_on_guarded(d, on) ==
    IF ~d.initialized THEN <<>>
    ELSE SSD1306_send_cmd(d, BitOr(SSD1306_SET_DISP, IF on THEN 1 ELSE 0))

\* A display toggle with the two opcodes exchanged.
SSD1306_display_on_swapped(d, on) ==
    SSD1306_send_cmd(d, BitOr(SSD1306_SET_DISP, IF on THEN 0 ELSE 1))

SSD1306_display_on(d, on) ==
    SSD1306_send_cmd(d, BitOr(SSD1306_SET_DISP, IF on THEN 1 ELSE 0))

SSD1306_display_off(d) == SSD1306_display_on(d, FALSE)

SSD1306_display_on_simple(d) == SSD1306_display_on(d, TRUE)

\* render(device, buf, area)
render(d, b, a) ==
    SSD1306_send_cmd_list(d,
        << SSD1306_SET_COL_ADDR, a.start_col, a.end_col,
           SSD1306_SET_PAGE_ADDR, a.start_page, a.end_page >>)
    \o SSD1306_send_buf(d, b, a.buflen)

(***************************************************************************)
(* SH1106 operations: the effect trace of each call                        *)
(***************************************************************************)
SH1106_init_cmds ==
    << SH1106_SET_DISP,
       SH1106_SET_DISP_CLK_DIV, 128,
       SH1106_SET_MUX_RATIO, HEIGHT - 1,
       SH1106_SET_DISP_OFFSET, 0,
       SH1106_SET_DISP_START_LINE,
       SH1106_SET_CHARGE_PUMP, 20,
       SH1106_SET_MEM_MODE, 0,
       BitOr(SH1106_SET_SEG_REMAP, 1),
       BitOr(SH1106_SET_COM_OUT_DIR, 8),
       SH1106_SET_COM_PIN_CFG, 18,
       SH1106_SET_CONTRAST, 255,
       SH1106_SET_PRECHARGE, 241,
       SH1106_SET_VCOM_DESEL, 64,
       SH1106_SET_ENTIRE_ON,
       SH1106_SET_NORM_DISP,
       SH1106_SET_PUMP_VOLTAGE,
       BitOr(SH1106_SET_DISP, 1) >>

SH1106_init == SH1106_send_cmd_list(SH1106_init_cmds)

SH1106_scroll(on) ==
    SH1106_send_cmd_list(
        << BitOr(SH1106_SET_HORIZ_SCROLL, 0), 0, 0, 0, NUM_PAGES - 1, 0, 255,
           BitOr(SH1106_SET_SCROLL, IF on THEN 1 ELSE 0) >>)

\* A render that forgets the column offset.
sh1106_render_no_offset(b, a) ==
    SH1106_send_cmd_list(
        << SH1106_SET_COL_ADDR, a.start_col, a.end_col,
           SH1106_SET_PAGE_ADDR, a.start_page, a.end_page >>)
    \o SH1106_send_buf(b, 0, a.buflen)

\* sh1106_render(buf, area): cmds[] is uint8_t, so the sums are kept to a byte.
sh1106_render(b, a) ==
    SH1106_send_cmd_list(
        << SH1106_SET_COL_ADDR,
           (a.start_col + SH1106_COLUMN_OFFSET) % 256,
           (a.end_col + SH1106_COLUMN_OFFSET) % 256,
           SH1106_SET_PAGE_ADDR, a.start_page, a.end_page >>)
    \o SH1106_send_buf(b, 0, a.buflen)

\* The body of the page loop of sh1106_render_full_screen.
sh1106_render_page(b, page) ==
    SH1106_send_cmd(SH1106_SET_PAGE_START + page)
    \o SH1106_send_cmd(BitOr(SH1106_SET_COL_ADDR_LOW, SH1106_COLUMN_OFFSET % 16))
    \o SH1106_send_cmd(BitOr(SH1106_SET_COL_ADDR_HIGH, (SH1106_COLUMN_OFFSET \div 16) % 16))
    \o SH1106_send_buf(b, page * WIDTH, WIDTH)

\* for (int page = 0; page < SH1106_NUM_PAGES; page++) ...
RECURSIVE sh1106_render_pages(_, _)
sh1106_render_pages(b, page) ==
    IF page < NUM_PAGES
    THEN sh1106_render_page(b, page) \o sh1106_render_pages(b, page + 1)
    ELSE <<>>

sh1106_render_full_screen(b) == sh1106_render_pages(b, 0)

(***************************************************************************)
(* Device and transport: the state machine                                 *)
(***************************************************************************)
\* A buffer whose bytes tell their position apart.
TestPattern == [i \in BufIdx |-> i % 251]

DevInit ==
    /\ InitCommon
    /\ ndebug = FALSE
    /\ buf = TestPattern
    /\ prevBuf = buf
    /\ OthersIdle

\* device->initialized after the assignments recorded in evs.
RECURSIVE FlagAfter(_, _)
FlagAfter(f, evs) ==
    IF evs = <<>> THEN f
    ELSE FlagAfter(IF Head(evs).k = "initialized" THEN Head(evs).s = "true" ELSE f,
                   Tail(evs))

\* What every call of the device layer does to the model's state.
DevCall(name, args, d, evs) ==
    /\ Running
    /\ lastOp' = [op |-> name, args |-> args]
    /\ prevHw' = [dev |-> dev, gpio |-> gpio]
    /\ log' = evs
    /\ dev' = [d EXCEPT !.initialized = FlagAfter(d.initialized, evs)]
    /\ gpio' = ApplyGpio(gpio, evs)
    /\ prevBuf' = buf
    /\ UNCHANGED <<variant, ndebug, buf, aborted, memFault, nOps, calls, pwr, ble, tcp>>

Ptrs == {"null", "ok"}

DoInit(devp, cfgp) ==
    /\ variant = "SSD1306"
    /\ DevCall("SSD1306_init", <<devp, cfgp>>,
               IF devp = "null" \/ cfgp = "null" THEN dev
               ELSE [dev EXCEPT !.config = Config],
               SSD1306_init(devp, cfgp))
    /\ UNCHANGED area

DoDeinit(devp) ==
    /\ variant = "SSD1306"
    /\ DevCall("SSD1306_deinit", <<devp>>, dev, SSD1306_deinit(devp, dev))
    /\ UNCHANGED area

DoScroll(on) ==
    /\ variant = "SSD1306"
    /\ DevCall("SSD1306_scroll", <<on>>, dev, SSD1306_scroll(dev, on))
    /\ UNCHANGED area

DoDisplayOn(on) ==
    /\ variant = "SSD1306"
    /\ DevCall("SSD1306_display_on", <<on>>, dev, SSD1306_display_on(dev, on))
    /\ UNCHANGED area

DoDisplayOff ==
    /\ variant = "SSD1306"
    /\ DevCall("SSD1306_display_off", <<>>, dev, SSD1306_display_off(dev))
    /\ UNCHANGED area

DoDisplayOnSimple ==
    /\ variant = "SSD1306"
    /\ DevCall("SSD1306_display_on_simple", <<>>, dev, SSD1306_display_on_simple(dev))
    /\ UNCHANGED area

DoRender ==
    /\ variant = "SSD1306"
    /\ DevCall("render", <<>>, dev, render(dev, buf, area))
    /\ UNCHANGED area

DoSh1106Init ==
    /\ variant = "SH1106"
    /\ DevCall("SH1106_init", <<>>, dev, SH1106_init)
    /\ UNCHANGED area

DoSh1106Scroll(on) ==
    /\ variant = "SH1106"
    /\ DevCall("SH1106_scroll", <<on>>, dev, SH1106_scroll(on))
    /\ UNCHANGED area

DoSh1106Render ==
    /\ variant = "SH1106"
    /\ DevCall("sh1106_render", <<>>, dev, sh1106_render(buf, area))
    /\ UNCHANGED area

DoSh1106RenderFullScreen ==
    /\ variant = "SH1106"
    /\ DevCall("sh1106_render_full_screen", <<>>, dev, sh1106_render_full_screen(buf))
    /\ UNCHANGED area

\* struct render_area a = SSD1306_FULL_SCREEN_AREA();
DoAreaFullScreen ==
    /\ DevCall("FULL_SCREEN_AREA", <<>>, dev, <<>>)
    /\ area' = FullScreenArea

\* The caller assigns the rectangle fields; buflen keeps its value.
DoAreaSetRect(sc, ec, sp, ep) ==
    /\ sc <= ec /\ sp <= ep
    /\ DevCall("set_rect", <<sc, ec, sp, ep>>, dev, <<>>)
    /\ area' = [area EXCEPT !.start_col = sc, !.end_col = ec,
                            !.start_page = sp, !.end_page = ep]

DoCalcBuflen ==
    /\ DevCall("calc_render_area_buflen", <<>>, dev, <<>>)
    /\ area' = IF variant = "SSD1306" THEN calc_render_area_buflen(area)
                                      ELSE sh1106_calc_render_area_buflen(area)

Next ==
    \/ \E devp \in Ptrs, cfgp \in Ptrs : DoInit(devp, cfgp)
    \/ \E devp \in Ptrs : DoDeinit(devp)
    \/ \E on \in BOOLEAN : DoScroll(on)
    \/ \E on \in BOOLEAN : DoDisplayOn(on)
    \/ DoDisplayOff
    \/ DoDisplayOnSimple
    \/ DoRender
    \/ DoSh1106Init
    \/ \E on \in BOOLEAN : DoSh1106Scroll(on)
    \/ DoSh1106Render
    \/ DoSh1106RenderFullScreen
    \/ DoAreaFullScreen
    \/ \E sc \in Cols, ec \in Cols, sp \in Pages, ep \in Pages : DoAreaSetRect(sc, ec, sp, ep)
    \/ DoCalcBuflen

Init == DevInit

Spec == Init /\ [][Next]_vars

(***************************************************************************)
(* C1  For every in-bounds (x, y), set_pixel leaves the buffer equal to    *)
(* the old one except that bit y % 8 of byte (y / 8) * WIDTH + x equals    *)
(* `on`; this holds for SetPixel and for SH1106_SetPixel alike.            *)
(***************************************************************************)
LastX == lastOp.args[1]
LastY == lastOp.args[2]
LastOn == lastOp.args[3]

C1_SetPixelInBounds ==
    (lastOp.op = "SetPixel" /\ InBounds(LastX, LastY)) =>
        /\ ~aborted /\ ~memFault
        /\ \A i \in BufIdx :
             IF i = (LastY \div 8) * WIDTH + LastX
             THEN \A k \in 0 .. 7 :
                    Bit(buf[i], k) = IF k = LastY % 8
                                     THEN (IF LastOn THEN 1 ELSE 0)
                                     ELSE Bit(prevBuf[i], k)
             ELSE buf[i] = prevBuf[i]

\* A pixel of the last page is switched on in a cleared buffer.
C1_Witness ==
    /\ lastOp = [op |-> "SetPixel", args |-> <<WIDTH - 1, HEIGHT - 1, TRUE>>]
    /\ prevBuf[BUF_LEN - 1] = 0
    /\ buf[BUF_LEN - 1] = 128

(***************************************************************************)
(* C2  For every (x, y) outside the display, set_pixel of both drivers     *)
(* returns normally and leaves the buffer byte-for-byte unchanged,         *)
(* touching no byte outside the buffer.                                    *)
(***************************************************************************)
C2_SetPixelOutOfBoundsNoOp ==
    (lastOp.op = "SetPixel" /\ ~InBounds(LastX, LastY)) =>
        /\ buf = prevBuf
        /\ ~aborted
        /\ ~memFault

(***************************************************************************)
(* Reading the effect trace                                                *)
(***************************************************************************)
IsWrite(e) == e.k = "i2c_write"

\* A command as the transport shim frames it: control byte 0x80, then the byte.
IsCmd(e, c) == IsWrite(e) /\ e.bytes = <<128, c>>

\* A data block: control byte 0x40, then the data bytes.
IsData(e) == IsWrite(e) /\ Len(e.bytes) >= 1 /\ e.bytes[1] = 64

DataLen(e) == Len(e.bytes) - 1

DataBytes(e) == [i \in 1 .. DataLen(e) |-> e.bytes[i + 1]]

RECURSIVE Streamed(_)
Streamed(l) ==
    IF l = <<>> THEN 0
    ELSE (IF IsData(Head(l)) THEN DataLen(Head(l)) ELSE 0) + Streamed(Tail(l))

Writes(l) == SelectSeq(l, IsWrite)

IsFullScreenRect(a) ==
    a.start_col = 0 /\ a.end_col = 127 /\ a.start_page = 0 /\ a.end_page = 7

WasReady == prevHw.dev.initialized

(***************************************************************************)
(* C3  Whatever constructions and mutations of the render area came        *)
(* before, a render streams exactly                                        *)
(* (end_col - start_col + 1) * (end_page - start_page + 1) data bytes of   *)
(* the area's current rectangle.                                           *)
(***************************************************************************)
C3_RenderStreamsRectLen ==
    lastOp.op \in {"render", "sh1106_render"} =>
        Streamed(log) =
            (area.end_col - area.start_col + 1) * (area.end_page - area.start_page + 1)

(***************************************************************************)
(* C4  An SSD1306 render emits the set-column-address command with         *)
(* (start_col, end_col), the set-page-address command with (start_page,    *)
(* end_page) and then exactly one data block, nothing in between; for the  *)
(* full-screen area the block holds 1024 bytes.                            *)
(***************************************************************************)
C4_RenderSequence ==
    lastOp.op = "render" =>
        /\ Len(log) = 7
        /\ IsCmd(log[1], 33) /\ IsCmd(log[2], area.start_col) /\ IsCmd(log[3], area.end_col)
        /\ IsCmd(log[4], 34) /\ IsCmd(log[5], area.start_page) /\ IsCmd(log[6], area.end_page)
        /\ IsData(log[7])
        /\ (IsFullScreenRect(area) => DataLen(log[7]) = 1024)

(***************************************************************************)
(* C5  On the SH1106 the column sent on the wire is the logical column     *)
(* plus 2: sh1106_render sends start_col + 2 and end_col + 2 (2, not 0,    *)
(* for start_col = 0), sh1106_render_full_screen sends the nibble commands *)
(* 0x02 and 0x10 for every page, and the data bytes are taken from the     *)
(* buffer without any offset.                                              *)
(***************************************************************************)
C5_ColumnOffsetOnWire ==
    /\ lastOp.op = "sh1106_render" =>
         /\ Len(log) = 7
         /\ IsCmd(log[2], area.start_col + 2)
         /\ IsCmd(log[3], area.end_col + 2)
         /\ (area.start_col = 0 => log[2].bytes[2] = 2)
         /\ IsData(log[7])
         /\ \A i \in 1 .. DataLen(log[7]) : DataBytes(log[7])[i] = buf[i - 1]
    /\ lastOp.op = "sh1106_render_full_screen" =>
         /\ Len(log) = 4 * 8
         /\ \A p \in 0 .. 7 :
              /\ IsCmd(log[4 * p + 2], 2)
              /\ IsCmd(log[4 * p + 3], 16)
              /\ IsData(log[4 * p + 4])
              /\ DataLen(log[4 * p + 4]) = 128
              /\ \A i \in 1 .. 128 : DataBytes(log[4 * p + 4])[i] = buf[128 * p + i - 1]

\* A render of an area that starts at column 0 puts column 2 on the wire.
C5_Witness ==
    /\ lastOp.op = "sh1106_render"
    /\ area.start_col = 0
    /\ area.buflen > 0
    /\ IsCmd(log[2], 2)
    /\ buf # ClearBuffer

(***************************************************************************)
(* C6  An SH1106 render of an area issues, for each page of                *)
(* [start_page, end_page] in ascending order, the set-page-start command   *)
(* of that page, the two column-nibble commands and then exactly 128 data  *)
(* bytes buf[page * 128 .. page * 128 + 127]; no other page is addressed.  *)
(* (sh1106_render_full_screen takes no area: its range is all pages.  The  *)
(* area of sh1106_render is taken with its buflen computed, so that the    *)
(* stale length of C3 plays no part.)                                      *)
(***************************************************************************)
IsPagedRender(l, b, first, last) ==
    /\ Len(l) = 4 * (last - first + 1)
    /\ \A p \in first .. last :
         LET j == 4 * (p - first) IN
         /\ IsCmd(l[j + 1], 176 + p)
         /\ \E n \in 0 .. 15 : IsCmd(l[j + 2], n)
         /\ \E n \in 0 .. 15 : IsCmd(l[j + 3], 16 + n)
         /\ IsData(l[j + 4])
         /\ DataBytes(l[j + 4]) = [i \in 1 .. 128 |-> b[128 * p + i - 1]]

C6_PerPageRender ==
    /\ (lastOp.op = "sh1106_render" /\ area.buflen = RectLen(area)) =>
         IsPagedRender(log, buf, area.start_page, area.end_page)
    /\ lastOp.op = "sh1106_render_full_screen" =>
         IsPagedRender(log, buf, 0, 7)

C8_DeinitIdempotent ==
    (lastOp.op = "SSD1306_deinit" /\ (lastOp.args[1] = "null" \/ ~WasReady)) =>
        /\ log = <<>>
        /\ dev = prevHw.dev
        /\ gpio = prevHw.gpio

\* A second deinit: the lines were already safed by the first one.
C8_Witness ==
    /\ lastOp = [op |-> "SSD1306_deinit", args |-> <<"ok">>]
    /\ ~WasReady
    /\ \A p \in Pins : prevHw.gpio[p].func = "SIO"
    /\ log = <<>>

(***************************************************************************)
(* C9  After SSD1306_init with a non-null device and config the device is  *)
(* READY; the flag is cleared before anything is sent and raised only      *)
(* after the whole command list; the last command of init (both drivers)   *)
(* is display-on, 0xAE | 0x01.                                             *)
(***************************************************************************)
C9_InitReachesReady ==
    /\ lastOp = [op |-> "SSD1306_init", args |-> <<"ok", "ok">>] =>
         /\ dev.initialized
         /\ log[1].k = "initialized" /\ log[1].s = "false"
         /\ log[Len(log)].k = "initialized" /\ log[Len(log)].s = "true"
         /\ \A i \in 2 .. (Len(log) - 1) : log[i].k # "initialized"
         /\ Len(Writes(log)) = 26
         /\ IsCmd(log[Len(log) - 1], 175)
    /\ lastOp.op = "SH1106_init" =>
         /\ Len(log) = 26
         /\ \A i \in 1 .. 26 : IsWrite(log[i])
         /\ IsCmd(log[26], 175)

\* init takes a device that was not READY to READY.
C9_Witness ==
    /\ lastOp = [op |-> "SSD1306_init", args |-> <<"ok", "ok">>]
    /\ ~WasReady
    /\ dev.initialized
    /\ dev.config = Config

(***************************************************************************)
(* C10  display_on, display_off, scroll and render issue no write on the   *)
(* transport while the device is not READY (before the first init, or      *)
(* after a deinit and before the next init).                               *)
(***************************************************************************)
UnguardedOps ==
    {"SSD1306_display_on", "SSD1306_display_off", "SSD1306_display_on_simple",
     "SSD1306_scroll", "render"}

C10_NoWritesUnlessReady ==
    (lastOp.op \in UnguardedOps /\ ~WasReady) => Writes(log) = <<>>

\* C10 as amended: display_on, display_off, scroll and render do not test the
\* READY flag.  READY or not, each issues its whole write sequence (1, 1, 8
\* and 7 writes), does nothing else and leaves the flag as it was; among the
\* operations of the driver only deinit is guarded by the flag.
C10_ToggleAndRenderUnguarded ==
    /\ lastOp.op \in UnguardedOps =>
         /\ Len(log) = (IF lastOp.op = "SSD1306_scroll" THEN 8
                        ELSE IF lastOp.op = "render" THEN 7 ELSE 1)
         /\ \A i \in 1 .. Len(log) : IsWrite(log[i])
         /\ dev = prevHw.dev
         /\ gpio = prevHw.gpio
    /\ (lastOp.op = "SSD1306_deinit" /\ ~WasReady) => Writes(log) = <<>>

\* display_on is called after a deinit and still writes to the bus.
C10_Witness ==
    /\ lastOp.op = "SSD1306_display_on"
    /\ ~WasReady
    /\ \A p \in Pins : gpio[p].func = "SIO"
    /\ Len(Writes(log)) = 1

(***************************************************************************)
(* C11  display_on(device, on) sends exactly one command byte, 0xAF when   *)
(* on and 0xAE when off, and changes nothing else: the frame buffer, the   *)
(* column/page addressing (no addressing command is sent and the render    *)
(* area is untouched), the initialized flag, the configuration and the     *)
(* pins are as they were before the call.                                  *)
(***************************************************************************)
C11_DisplayOnOnlyToggles ==
    [][ lastOp'.op = "SSD1306_display_on" =>
          /\ log' = << I2cWrite(dev.config.i2c_address,
                                << 128, IF lastOp'.args[1] THEN 175 ELSE 174 >>) >>
          /\ buf' = buf
          /\ area' = area
          /\ dev' = dev
          /\ gpio' = gpio
          /\ ~aborted' /\ ~memFault' ]_vars

\* An initialised display with a rectangle set is switched off by one write.
C11_Witness ==
    /\ lastOp = [op |-> "SSD1306_display_on", args |-> <<FALSE>>]
    /\ dev.initialized
    /\ area.end_col = 5
    /\ Len(log) = 1
    /\ log[1].bytes = <<128, 174>>

(***************************************************************************)
(* C12  Every byte sequence that reaches the transport is framed: each     *)
(* command byte is its own write of two bytes, 0x80 then the command, and  *)
(* each data block is one write that begins with 0x40.  This holds for     *)
(* every write issued by init, render, scroll, display_on and deinit.      *)
(***************************************************************************)
IsFramed(e) ==
    \/ Len(e.bytes) = 2 /\ e.bytes[1] = 128
    \/ Len(e.bytes) >= 1 /\ e.bytes[1] = 64

C12_EveryWriteFramed ==
    \A i \in 1 .. Len(log) : IsWrite(log[i]) => IsFramed(log[i])

(***************************************************************************)
(* C13  draw_line always sets both end points (x0, y0) and (x1, y1) to     *)
(* `on` when they are in bounds; a degenerate line (x0 = x1, y0 = y1)      *)
(* makes one pixel call and changes that one pixel only.  Both drivers.    *)
(***************************************************************************)
PixelAt(b, x, y) == Bit(b[(y \div 8) * WIDTH + x], y % 8)

OnBit == IF lastOp.args[5] THEN 1 ELSE 0

LineInBounds ==
    /\ lastOp.op = "DrawLine"
    /\ InBounds(lastOp.args[1], lastOp.args[2])
    /\ InBounds(lastOp.args[3], lastOp.args[4])

C13_LineSetsEndpoints ==
    LineInBounds =>
        /\ ~aborted /\ ~memFault
        /\ PixelAt(buf, lastOp.args[1], lastOp.args[2]) = OnBit
        /\ PixelAt(buf, lastOp.args[3], lastOp.args[4]) = OnBit
        /\ (lastOp.args[1] = lastOp.args[3] /\ lastOp.args[2] = lastOp.args[4]) =>
             /\ calls = << <<lastOp.args[1], lastOp.args[2]>> >>
             /\ \A i \in BufIdx :
                  IF i = (lastOp.args[2] \div 8) * WIDTH + lastOp.args[1]
                  THEN \A k \in 0 .. 7 :
                         k # lastOp.args[2] % 8 => Bit(buf[i], k) = Bit(prevBuf[i], k)
                  ELSE buf[i] = prevBuf[i]

\* A degenerate line switches one pixel of a filled buffer off.
C13_Witness ==
    /\ lastOp = [op |-> "DrawLine", args |-> <<5, 9, 5, 9, FALSE>>]
    /\ prevBuf[WIDTH + 5] = 255
    /\ buf[WIDTH + 5] = 253
    /\ Len(calls) = 1

(***************************************************************************)
(* C14  A line that lies partly outside the display is clipped pixel by    *)
(* pixel in both drivers: every visited in-bounds point is set to `on`,    *)
(* out-of-bounds points are skipped so that nothing else changes, and the  *)
(* call completes normally, having walked to (x1, y1).                     *)
(***************************************************************************)
Visited == { calls[i] : i \in 1 .. Len(calls) }

C14_LineClipped ==
    lastOp.op = "DrawLine" =>
        /\ ~aborted /\ ~memFault
        /\ calls # <<>>
        /\ calls[Len(calls)] = <<lastOp.args[3], lastOp.args[4]>>
        /\ \A i \in BufIdx : \A k \in 0 .. 7 :
             Bit(buf[i], k) = IF <<i % WIDTH, (i \div WIDTH) * 8 + k>> \in Visited
                              THEN OnBit
                              ELSE Bit(prevBuf[i], k)

(***************************************************************************)
(* C15  write_char(buf, x, y, ch) leaves the buffer unchanged whenever     *)
(* x < 0, x > width - 8, y < 0 or y > height - 8; otherwise it only        *)
(* modifies bits of pixels inside the box [x, x+7] x [y, y+7], and every   *)
(* pixel of the glyph is lit: a glyph is never drawn partially.            *)
(***************************************************************************)
CharX == lastOp.args[1]
CharY == lastOp.args[2]

C15_CharWholeOrNothing ==
    lastOp.op = "WriteChar" =>
        /\ ~aborted /\ ~memFault
        /\ IF CharX < 0 \/ CharX > WIDTH - 8 \/ CharY < 0 \/ CharY > HEIGHT - 8
           THEN buf = prevBuf
           ELSE /\ \A i \in BufIdx : \A k \in 0 .. 7 :
                     ( \/ i % WIDTH < CharX \/ i % WIDTH > CharX + 7
                       \/ (i \div WIDTH) * 8 + k < CharY
                       \/ (i \div WIDTH) * 8 + k > CharY + 7 )
                     => Bit(buf[i], k) = Bit(prevBuf[i], k)
                /\ \A col \in 0 .. 7 : \A row \in 0 .. 7 :
                     Bit(font[FontIndexOf(lastOp.args[3]) * 8 + col + 1], row) = 1
                     => PixelAt(buf, CharX + col, CharY + row) = 1

\* The letter A is drawn whole into the bottom right corner of a cleared buffer.
C15_Witness ==
    /\ lastOp = [op |-> "WriteChar", args |-> <<WIDTH - 8, HEIGHT - 8, 65>>]
    /\ prevBuf = ClearBuffer
    /\ buf[7 * WIDTH + WIDTH - 8] = 124
    /\ buf[7 * WIDTH + WIDTH - 2] = 124

(***************************************************************************)
(* C16  write_string(buf, x, y, str) places character i at column x + 8*i  *)
(* and never draws a character at a column greater than width - 8: the     *)
(* characters it draws are the first ones of the string, in order, the     *)
(* rest is dropped, and a string written at x = width - 4 draws none.      *)
(***************************************************************************)
StrX == lastOp.args[1]
StrY == lastOp.args[2]
Str == lastOp.args[3]

\* The WriteChar calls of the last WriteString call.
CharCalls == Tail(calls)

C16_StringLayout ==
    lastOp.op = "WriteString" =>
        /\ ~aborted /\ ~memFault
        /\ calls[1] = Call("WriteString", StrX, StrY, Str)
        /\ Len(CharCalls) <= Len(Str)
        /\ \A j \in 1 .. Len(CharCalls) :
             /\ CharCalls[j] = Call("WriteChar", StrX + 8 * (j - 1), StrY, Str[j])
             /\ CharCalls[j].x <= WIDTH - 8
        /\ StrX > WIDTH - 8 => (CharCalls = <<>> /\ buf = prevBuf)

\* Seventeen letters from column 0: fifteen are placed, the last at column 112.
C16_Witness ==
    /\ lastOp.op = "WriteString"
    /\ StrX = 0
    /\ Len(Str) = 17
    /\ Len(CharCalls) = 15
    /\ CharCalls[15].x = WIDTH - 16
    /\ prevBuf = ClearBuffer
    /\ buf # prevBuf

(***************************************************************************)
(* C17  write_string draws every character whose 8x8 box fits: character i *)
(* is drawn whenever 0 <= x + 8*i <= width - 8 (and 0 <= y <= height - 8); *)
(* a non-empty string written at x = width - 8 draws exactly its first     *)
(* character, at column 120.                                               *)
(***************************************************************************)
C17_StringDrawsEveryFit ==
    (lastOp.op = "WriteString" /\ StrY >= 0 /\ StrY <= HEIGHT - 8) =>
        /\ \A i \in 0 .. Len(Str) - 1 :
             (0 <= StrX + 8 * i /\ StrX + 8 * i <= WIDTH - 8) =>
                 \E j \in 1 .. Len(CharCalls) :
                     CharCalls[j] = Call("WriteChar", StrX + 8 * i, StrY, Str[i + 1])
        /\ (StrX = WIDTH - 8 /\ Str # <<>>) =>
             CharCalls = << Call("WriteChar", WIDTH - 8, StrY, Str[1]) >>

(***************************************************************************)
(* C18  write_centered(buf, y, str) starts the string at                   *)
(* x = (width - 8 * len(str)) / 2, clamped to a minimum of 0 for strings   *)
(* wider than the display; for length 5 on width 128 the start is 44.      *)
(***************************************************************************)
CenteredStr == lastOp.args[2]

C18_CenteredStart ==
    lastOp.op = "WriteCentered" =>
        /\ ~aborted /\ ~memFault
        /\ calls[1].f = "WriteString"
        /\ calls[1].y = lastOp.args[1]
        /\ calls[1].c = CenteredStr
        /\ calls[1].x = IF 8 * Len(CenteredStr) > WIDTH THEN 0
                        ELSE (WIDTH - 8 * Len(CenteredStr)) \div 2
        /\ Len(CenteredStr) = 5 => calls[1].x = 44
        /\ Len(calls) >= 2 => (calls[2].f = "WriteChar" /\ calls[2].x = calls[1].x)

\* "hello" is centred: its first character goes to column 44.
C18_Witness ==
    /\ lastOp.op = "WriteCentered"
    /\ Len(CenteredStr) = 5
    /\ Len(calls) = 6
    /\ calls[2] = Call("WriteChar", 44, lastOp.args[1], 104)
    /\ prevBuf = ClearBuffer
    /\ buf[44] # 0

(***************************************************************************)
(* C19  write_lines(buf, x, y, lines, count, spacing) writes line i at     *)
(* vertical position y + i * spacing, in index order, and stops at the     *)
(* first line whose position exceeds height - 8, dropping that line and    *)
(* all later ones; no line is written at a position above height - 8.      *)
(***************************************************************************)
IsStringCall(c) == c.f = "WriteString"

\* The WriteString calls of the last WriteLines call.
StringCalls == SelectSeq(calls, IsStringCall)

LinesY == lastOp.args[2]
LinesCount == lastOp.args[3]
LinesSpacing == lastOp.args[4]

C19_LinesLayout ==
    lastOp.op = "WriteLines" =>
        /\ ~aborted /\ ~memFault
        /\ Len(StringCalls) <= LinesCount
        /\ \A j \in 1 .. Len(StringCalls) :
             /\ StringCalls[j] = Call("WriteString", lastOp.args[1],
                                      LinesY + (j - 1) * LinesSpacing, Lines[j])
             /\ StringCalls[j].y <= HEIGHT - 8
        /\ Len(StringCalls) < LinesCount =>
             LinesY + Len(StringCalls) * LinesSpacing > HEIGHT - 8

\* Three lines from y = 40 with spacing 12: 40 and 52 are written, 64 is not.
C19_Witness ==
    /\ lastOp = [op |-> "WriteLines", args |-> <<8, 40, 3, 12>>]
    /\ Len(StringCalls) = 2
    /\ StringCalls[2].y = 52
    /\ prevBuf = ClearBuffer
    /\ buf # prevBuf

(***************************************************************************)
(* C20  Glyph lookup is total: for every byte value ch (0..255)            *)
(* GetFontIndex(toupper(ch)) is an index in 0..50, so that its eight       *)
(* column bytes lie inside the table; a lowercase letter resolves to the   *)
(* index of its uppercase form, and every character outside space, A-Z,    *)
(* a-z, 0-9 and the punctuation set resolves to index 0, the space glyph.  *)
(***************************************************************************)
Punctuation == {46, 44, 37, 45, 58, 59, 33, 63, 47, 40, 41, 43, 61, 95}

Mapped == {32} \cup (65 .. 90) \cup (97 .. 122) \cup (48 .. 57) \cup Punctuation

LookupCh == lastOp.args[1]
LookupIdx == lastOp.args[2]

C20_LookupTotal ==
    lastOp.op = "GetFontIndex" =>
        /\ LookupIdx \in 0 .. 50
        /\ LookupIdx * 8 + 8 <= Len(font)
        /\ LookupCh \in 65 .. 90 => LookupIdx = LookupCh - 64
        /\ LookupCh \in 97 .. 122 => LookupIdx = (LookupCh - 32) - 64
        /\ LookupCh \notin Mapped => LookupIdx = 0

\* The letter z resolves to the glyph of Z.
C20_Witness == lastOp = [op |-> "GetFontIndex", args |-> <<122, 26>>]

(***************************************************************************)
(* C21  calc_render_area_buflen sets buflen to                             *)
(* (end_col - start_col + 1) * (end_page - start_page + 1) for every valid *)
(* rectangle and leaves the rectangle alone; whatever buflen held before,  *)
(* also a length computed for an earlier rectangle, is overwritten.        *)
(***************************************************************************)
C21_BuflenRecomputed ==
    [][ lastOp'.op = "calc_render_area_buflen" =>
          /\ area'.buflen = (area.end_col - area.start_col + 1)
                            * (area.end_page - area.start_page + 1)
          /\ area'.start_col = area.start_col /\ area'.end_col = area.end_col
          /\ area'.start_page = area.start_page /\ area'.end_page = area.end_page
          /\ area'.buflen >= 1 /\ area'.buflen <= BUF_LEN ]_vars

\* The length of a 6 x 8 rectangle, set after construction, has been computed.
C21_Witness ==
    /\ lastOp.op = "calc_render_area_buflen"
    /\ area.start_col = 0 /\ area.end_col = 5
    /\ area.start_page = 0 /\ area.end_page = NUM_PAGES - 1
    /\ area.buflen = 48

(***************************************************************************)
(* C22  Writing "3.7V" at (0, 0) on a cleared buffer touches exactly the   *)
(* 32 columns 0..31 of page 0: byte 8 * i + c equals column c of the glyph *)
(* of character i (i in 0..3, c in 0..7), and every byte at column >= 32   *)
(* of page 0 and every byte of pages 1..7 stays zero.                      *)
(***************************************************************************)
Volts == <<51, 46, 55, 86>>

\* The glyphs of '3', '.', '7' and 'V' in the font table.
VoltsGlyphs == <<30, 37, 34, 22>>

IsVoltsAtOrigin ==
    /\ lastOp.op = "WriteString"
    /\ lastOp.args = <<0, 0, Volts>>
    /\ prevBuf = ClearBuffer

C22_VoltsAtOrigin ==
    IsVoltsAtOrigin =>
        /\ ~aborted /\ ~memFault
        /\ \A i \in 0 .. 3 : \A c \in 0 .. 7 :
               buf[8 * i + c] = font[VoltsGlyphs[i + 1] * 8 + c + 1]
        /\ \A j \in BufIdx : j >= 32 => buf[j] = 0

\* The four glyphs are in the buffer and none of them is blank.
C22_Witness ==
    /\ IsVoltsAtOrigin
    /\ \A i \in 0 .. 3 : \E c \in 0 .. 7 : buf[8 * i + c] # 0
    /\ buf # ClearBuffer

(***************************************************************************)
(* C26  draw_line terminates for all integer end points: the loop reaches  *)
(* (x1, y1) after exactly max(|x1 - x0|, |y1 - y0|) steps, each step moves *)
(* x and y by at most one pixel toward the target, so max(|dx|, |dy|) + 1  *)
(* points are visited, and the same inputs give the same points.           *)
(***************************************************************************)
LineX0 == lastOp.args[1]
LineY0 == lastOp.args[2]
LineX1 == lastOp.args[3]
LineY1 == lastOp.args[4]

Max(a, b) == IF a >= b THEN a ELSE b

LineSteps == Max(Abs(LineX1 - LineX0), Abs(LineY1 - LineY0))

\* The points of the last call walk from (x0, y0) to (x1, y1) one pixel at
\* a time, never away from the target.
WalkReachesTarget ==
    /\ Len(calls) = LineSteps + 1
    /\ calls[1] = <<LineX0, LineY0>>
    /\ calls[Len(calls)] = <<LineX1, LineY1>>
    /\ \A i \in 1 .. Len(calls) - 1 :
         /\ Abs(calls[i + 1][1] - calls[i][1]) <= 1
         /\ Abs(calls[i + 1][2] - calls[i][2]) <= 1
         /\ Abs(LineX1 - calls[i + 1][1]) <= Abs(LineX1 - calls[i][1])
         /\ Abs(LineY1 - calls[i + 1][2]) <= Abs(LineY1 - calls[i][2])
         /\ calls[i + 1] # calls[i]

\* Drawing the same line on the same buffer again visits the same points.
WalkRepeatable ==
    \A o \in (IF variant = "SSD1306"
              THEN DrawLine(prevBuf, LineX0, LineY0, LineX1, LineY1, lastOp.args[5])
              ELSE SH1106_DrawLine(prevBuf, LineX0, LineY0, LineX1, LineY1, lastOp.args[5])) :
        o.calls = calls /\ o.buf = buf

C26_LineWalk ==
    lastOp.op = "DrawLine" =>
        /\ ~aborted /\ ~memFault
        /\ WalkReachesTarget
        /\ WalkRepeatable

\* What holds where the pixel primitive clips: in the SH1106 driver, and in
\* the SSD1306 driver for lines that stay on the display.
C26_WalkWhereClipped ==
    (lastOp.op = "DrawLine" /\ (variant = "SH1106" \/ LineInBounds)) =>
        /\ ~aborted /\ ~memFault
        /\ WalkReachesTarget
        /\ WalkRepeatable

(***************************************************************************)
(* Peripheral power: a P-channel MOSFET gate on one GPIO pin               *)
(***************************************************************************)
\* peripheral_power_create_config(config, gate_pin, start_enabled)
peripheral_power_create_config(gate_pin, start_enabled) ==
    [gate_pin |-> gate_pin, start_enabled |-> start_enabled]

\* gpio_init(pin): the pad becomes a software-controlled input whose output
\* latch is cleared; gpio_set_dir(pin, GPIO_OUT) then drives the latch.
PadInit == [func |-> "SIO", dir |-> "in", out |-> 0]

\* peripheral_power_enable(power)
peripheral_power_enable(p) ==
    IF ~p.initialized THEN [p EXCEPT !.ret = FALSE]
    ELSE IF p.power_enabled THEN [p EXCEPT !.ret = TRUE]
    ELSE [p EXCEPT !.gate.out = 0, !.power_enabled = TRUE, !.ret = TRUE]

\* peripheral_power_disable(power)
peripheral_power_disable(p) ==
    IF ~p.initialized THEN [p EXCEPT !.ret = FALSE]
    ELSE IF ~p.power_enabled THEN [p EXCEPT !.ret = TRUE]
    ELSE [p EXCEPT !.gate.out = 1, !.power_enabled = FALSE, !.ret = TRUE]

\* peripheral_power_init(power, config); the function returns nothing.
peripheral_power_init(p, powerp, configp, config) ==
    IF powerp = "null" \/ configp = "null" THEN p
    ELSE IF p.initialized THEN p
    ELSE LET q == [p EXCEPT !.config = config,
                            !.gate = [PadInit EXCEPT !.dir = "out"],
                            !.initialized = TRUE]
             r == IF config.start_enabled THEN peripheral_power_enable(q)
                                          ELSE peripheral_power_disable(q)
         IN  [r EXCEPT !.ret = p.ret]

MaxPowerOps == 3

GatePins == {15, 22}

PowerCall(name, args, p) ==
    /\ nOps < MaxPowerOps
    /\ nOps' = nOps + 1
    /\ lastOp' = [op |-> name, args |-> args]
    /\ pwr' = p
    /\ UNCHANGED <<oledVars, ble, tcp>>

DoPowerInit(powerp, configp, gate_pin, start_enabled) ==
    PowerCall("peripheral_power_init", <<powerp, configp, gate_pin, start_enabled>>,
              peripheral_power_init(pwr, powerp, configp,
                  peripheral_power_create_config(gate_pin, start_enabled)))

DoPowerEnable == PowerCall("peripheral_power_enable", <<>>, peripheral_power_enable(pwr))

DoPowerDisable == PowerCall("peripheral_power_disable", <<>>, peripheral_power_disable(pwr))

PowerNext ==
    \/ \E powerp \in Ptrs, configp \in Ptrs, pin \in GatePins, se \in BOOLEAN :
           DoPowerInit(powerp, configp, pin, se)
    \/ DoPowerEnable
    \/ DoPowerDisable

\* The struct is not yet initialised and power_enabled holds any value.
PowerInit ==
    /\ InitCommon
    /\ variant = "SSD1306" /\ ndebug = FALSE
    /\ buf = ClearBuffer /\ prevBuf = buf
    /\ \E pe \in BOOLEAN : pwr = PowerBefore(pe)
    /\ ble = BleStatic
    /\ tcp = NoClient

PowerSpec == PowerInit /\ [][PowerNext]_vars

(***************************************************************************)
(* C28  For a peripheral_power_t with initialized == false and any prior   *)
(* value of power_enabled: after peripheral_power_init and any sequence of *)
(* enable / disable calls the gate pin level agrees with the recorded      *)
(* state (gate LOW iff power_enabled); right after init power_enabled      *)
(* equals config.start_enabled and the gate is driven HIGH when            *)
(* start_enabled is false.                                                 *)
(***************************************************************************)
GateDriven == pwr.gate.func = "SIO" /\ pwr.gate.dir = "out"

GateLow == GateDriven /\ pwr.gate.out = 0

GateHigh == GateDriven /\ pwr.gate.out = 1

InitTookEffect ==
    /\ lastOp.op = "peripheral_power_init"
    /\ lastOp.args[1] = "ok" /\ lastOp.args[2] = "ok"
    /\ pwr.config = peripheral_power_create_config(lastOp.args[3], lastOp.args[4])

C28_GateAgreesWithState ==
    pwr.initialized =>
        /\ GateLow <=> pwr.power_enabled
        /\ GateHigh <=> ~pwr.power_enabled
        /\ (InitTookEffect /\ nOps = 1) =>
             /\ pwr.power_enabled = pwr.config.start_enabled
             /\ ~pwr.config.start_enabled => GateHigh

(***************************************************************************)
(* BLE Nordic UART service                                                 *)
(***************************************************************************)
BLE_UART_MAX_MESSAGE_LENGTH == 128
BLE_UART_MAX_DEVICE_NAME_LENGTH == 32

\* The connection handle the controller gives a link.
ConHandle == 64

\* connection_callback(connected), when one is registered.
Callback(b, connected) ==
    IF b.connection_callback = "null" THEN b
    ELSE [b EXCEPT !.cbs = Append(b.cbs, connected),
                   !.linkTrues = IF connected THEN b.linkTrues + 1 ELSE b.linkTrues]

\* packet_handler, case BTSTACK_EVENT_STATE with HCI_STATE_WORKING;
\* setup_advertising ends with gap_advertisements_enable(1).
OnBtstackWorking(b) ==
    [b EXCEPT !.hci = "working", !.state = "ADVERTISING", !.adv = TRUE]

\* packet_handler, case HCI_EVENT_DISCONNECTION_COMPLETE
OnDisconnectionComplete(b) ==
    LET c == Callback([b EXCEPT !.link = "none", !.cccd = FALSE,
                                !.state = "ADVERTISING",
                                !.notifications_enabled = FALSE,
                                !.connection_handle = 0], FALSE)
    IN  [c EXCEPT !.adv = TRUE, !.linkTrues = 0]

\* packet_handler, case ATT_EVENT_CONNECTED
OnAttConnected(b) ==
    [b EXCEPT !.link = "up", !.state = "CONNECTED", !.connection_handle = ConHandle]

\* uint16_t bytes_to_copy = message_length - offset, clamped to buffer_size.
att_read_callback(message_length, att_handle, offset, buffer_size) ==
    IF att_handle = "TX_VALUE"
    THEN LET bytes_to_copy == (message_length - offset) % 65536
         IN  IF bytes_to_copy > buffer_size THEN buffer_size ELSE bytes_to_copy
    ELSE 0

\* att_write_callback; config is little_endian_read_16(buffer, 0).
att_write_callback(b, att_handle, buffer_size, config) ==
    IF att_handle = "TX_CCCD" /\ buffer_size >= 2
    THEN LET was_enabled == b.notifications_enabled
             on == (config % 2) # 0
             c == [b EXCEPT !.notifications_enabled = on, !.cccd = on]
         IN  IF ~was_enabled /\ on THEN Callback(c, TRUE) ELSE c
    ELSE b

\* ble_nordic_uart_init(device_name); namep tells whether the pointer is
\* null, device_name is the length of the name.
\* hci_power_control(HCI_POWER_ON) starts a controller that is off.
ble_nordic_uart_init(b, namep, device_name) ==
    IF namep = "null" THEN [b EXCEPT !.ret = FALSE, !.stopped = FALSE]
    ELSE IF device_name = 0 \/ device_name >= BLE_UART_MAX_DEVICE_NAME_LENGTH
    THEN [b EXCEPT !.ret = FALSE, !.stopped = FALSE]
    ELSE [b EXCEPT !.device_name = device_name, !.state = "INITIALIZING",
                   !.hci = IF b.hci = "off" THEN "starting" ELSE b.hci,
                   !.ret = TRUE, !.stopped = FALSE]

\* A readiness test that looks at the state only.
ble_nordic_uart_is_connected_state_only(b) == b.state = "CONNECTED"

\* ble_nordic_uart_is_connected()
ble_nordic_uart_is_connected(b) ==
    b.state = "CONNECTED" /\ b.notifications_enabled

\* ble_nordic_uart_send(message); messagep tells whether the pointer is
\* null, message is the bytes before the NUL.
ble_nordic_uart_send(b, messagep, message) ==
    IF ~ble_nordic_uart_is_connected(b) THEN [b EXCEPT !.ret = FALSE]
    ELSE IF messagep = "null" THEN [b EXCEPT !.ret = FALSE]
    ELSE IF Len(message) = 0 THEN [b EXCEPT !.ret = FALSE]
    ELSE LET msg_len == IF Len(message) > BLE_UART_MAX_MESSAGE_LENGTH - 1
                        THEN BLE_UART_MAX_MESSAGE_LENGTH - 1 ELSE Len(message)
         IN  [b EXCEPT !.message_buffer =
                           [i \in 1 .. Max(msg_len, Len(b.message_buffer)) |->
                               IF i <= msg_len THEN message[i] ELSE b.message_buffer[i]],
                       !.message_length = msg_len,
                       !.notifies = b.notifies + 1,
                       !.ret = TRUE]

\* ble_nordic_uart_set_connection_callback(callback)
ble_nordic_uart_set_connection_callback(b, callback) ==
    [b EXCEPT !.connection_callback = callback]

\* ble_nordic_uart_stop(): gap_advertisements_enable(0), gap_disconnect of
\* the recorded handle, state reset.
ble_nordic_uart_stop(b) ==
    IF b.state = "DISABLED" THEN [b EXCEPT !.stopped = TRUE]
    ELSE [b EXCEPT !.adv = FALSE,
                   !.link = IF b.connection_handle # 0 /\ b.link = "up"
                            THEN "closing" ELSE b.link,
                   !.state = "DISABLED", !.notifications_enabled = FALSE,
                   !.connection_handle = 0, !.stopped = TRUE]

MaxBleOps == 7

\* Device names by length: empty, "Pico", and one of 32 characters.
Names == {0, 4, BLE_UART_MAX_DEVICE_NAME_LENGTH}

\* Messages: "", "hi", "hello", and one of 130 characters.
Messages == {<<>>, <<104, 105>>, <<104, 101, 108, 108, 111>>,
             [i \in 1 .. 130 |-> 97 + (i % 26)]}

\* CCCD writes: <<buffer_size, config>>.
CccdWrites == {<<2, 1>>, <<2, 0>>, <<2, 2>>, <<1, 1>>}

AttHandles == {"TX_VALUE", "TX_CCCD"}
Offsets == {0, 2, 3, 127, 128, 65535}
BufferSizes == {0, 1, 20, 512}

BleCall(name, args, b) ==
    /\ nOps < MaxBleOps
    /\ nOps' = nOps + 1
    /\ lastOp' = [op |-> name, args |-> args]
    /\ ble' = b
    /\ UNCHANGED <<oledVars, pwr, tcp>>

DoBleInit(namep, name) ==
    /\ namep = "null" => name = 0
    /\ BleCall("ble_nordic_uart_init", <<namep, name>>,
               ble_nordic_uart_init(ble, namep, name))

DoBleSend(messagep, message) ==
    /\ messagep = "null" => message = <<>>
    /\ BleCall("ble_nordic_uart_send", <<messagep, message>>,
               ble_nordic_uart_send(ble, messagep, message))

DoBleIsConnected ==
    BleCall("ble_nordic_uart_is_connected", <<>>,
            [ble EXCEPT !.ret = ble_nordic_uart_is_connected(ble)])

DoBleSetCallback(callback) ==
    BleCall("ble_nordic_uart_set_connection_callback", <<callback>>,
            ble_nordic_uart_set_connection_callback(ble, callback))

DoBleStop == BleCall("ble_nordic_uart_stop", <<>>, ble_nordic_uart_stop(ble))

\* The controller has come up after hci_power_control(HCI_POWER_ON).
EvBtstackWorking ==
    /\ ble.hci = "starting"
    /\ BleCall("BTSTACK_EVENT_STATE", <<>>, OnBtstackWorking(ble))

\* A client connects to the advertising device.
EvAttConnected ==
    /\ ble.hci = "working" /\ ble.adv /\ ble.link = "none"
    /\ BleCall("ATT_EVENT_CONNECTED", <<>>, OnAttConnected(ble))

\* The link is gone: the client left, or gap_disconnect has completed.
EvDisconnectionComplete ==
    /\ ble.link # "none"
    /\ BleCall("HCI_EVENT_DISCONNECTION_COMPLETE", <<>>, OnDisconnectionComplete(ble))

\* The client writes an attribute.
EvAttWrite(att_handle, w) ==
    /\ ble.link # "none"
    /\ BleCall("att_write_callback", <<att_handle, w[1], w[2]>>,
               att_write_callback(ble, att_handle, w[1], w[2]))

\* The client reads an attribute.
EvAttRead(att_handle, offset, buffer_size) ==
    /\ ble.link # "none"
    /\ BleCall("att_read_callback", <<att_handle, offset, buffer_size>>,
               [ble EXCEPT !.copied = att_read_callback(ble.message_length, att_handle,
                                                        offset, buffer_size)])

BleNext ==
    \/ \E namep \in Ptrs, name \in Names : DoBleInit(namep, name)
    \/ \E messagep \in Ptrs, message \in Messages : DoBleSend(messagep, message)
    \/ DoBleIsConnected
    \/ \E callback \in {"null", "fn"} : DoBleSetCallback(callback)
    \/ DoBleStop
    \/ EvBtstackWorking
    \/ EvAttConnected
    \/ EvDisconnectionComplete
    \/ \E h \in AttHandles, w \in CccdWrites : EvAttWrite(h, w)
    \/ \E h \in AttHandles, offset \in Offsets, n \in BufferSizes : EvAttRead(h, offset, n)

BleInit ==
    /\ InitCommon
    /\ variant = "SSD1306" /\ ndebug = FALSE
    /\ buf = ClearBuffer /\ prevBuf = buf
    /\ OthersIdle

BleSpec == BleInit /\ [][BleNext]_vars

(***************************************************************************)
(* C23  ble_nordic_uart_is_connected() is true exactly when the state is   *)
(* BLE_UART_CONNECTED and the client has enabled notifications;            *)
(* ble_nordic_uart_send returns false, leaves the message buffer alone and *)
(* issues no notification whenever that is not the case, and for a null or *)
(* an empty message, in every reachable state.                             *)
(***************************************************************************)
\* The client of the current link is subscribed and the driver is connected.
ClientReady(b) == b.state = "CONNECTED" /\ b.link = "up" /\ b.cccd

SendRefused ==
    /\ ble'.ret = FALSE
    /\ ble'.message_buffer = ble.message_buffer
    /\ ble'.message_length = ble.message_length
    /\ ble'.notifies = ble.notifies

C23_ReadyOrRefused ==
    [][ /\ lastOp'.op = "ble_nordic_uart_is_connected" =>
             (ble'.ret <=> ClientReady(ble))
        /\ (lastOp'.op = "ble_nordic_uart_send"
              /\ (~ClientReady(ble) \/ lastOp'.args[1] = "null"
                    \/ lastOp'.args[2] = <<>>)) => SendRefused
        /\ (lastOp'.op = "ble_nordic_uart_send" /\ ~SendRefused) =>
             /\ ble'.ret = TRUE
             /\ ble'.notifies = ble.notifies + 1 ]_vars

\* A message offered to a connected client that has not subscribed is
\* refused, after an earlier message went out.
C23_Witness ==
    /\ lastOp = [op |-> "ble_nordic_uart_send", args |-> <<"ok", <<104, 105>> >>]
    /\ ble.state = "CONNECTED" /\ ~ble.cccd
    /\ ~ble.ret
    /\ ble.notifies = 1
    /\ ble.message_length = 5

(***************************************************************************)
(* C24  ble_nordic_uart_stop() disconnects any connected client and stops  *)
(* advertising: after it returns, for every later sequence of BTstack      *)
(* events (the HCI_EVENT_DISCONNECTION_COMPLETE that follows stop's own    *)
(* gap_disconnect included) the state remains BLE_UART_DISABLED and        *)
(* advertising is not re-enabled until ble_nordic_uart_init is called.     *)
(***************************************************************************)
C24_StoppedStaysDisabled ==
    ble.stopped => (ble.state = "DISABLED" /\ ~ble.adv)

(***************************************************************************)
(* C29  The connection callback reports state changes in alternation:      *)
(* over every sequence of connect, CCCD write and disconnect events,       *)
(* callback(false) is invoked only after a callback(true) that has not yet *)
(* been followed by callback(false), and callback(true) is invoked at most *)
(* once per connection.                                                    *)
(***************************************************************************)
C29_CallbackAlternates ==
    /\ \A i \in 1 .. Len(ble.cbs) :
         ble.cbs[i] = FALSE => (i > 1 /\ ble.cbs[i - 1] = TRUE)
    /\ ble.linkTrues <= 1

(***************************************************************************)
(* C30  att_read_callback on the TX characteristic never copies bytes      *)
(* beyond the stored message: for every 16-bit offset, buffer_size and     *)
(* message_length (0..127) it returns                                      *)
(* min(buffer_size, message_length - offset) when offset <= message_length *)
(* and 0 when offset > message_length; the 16-bit subtraction does not     *)
(* wrap into a large count.                                                *)
(***************************************************************************)
ReadOffset == lastOp.args[2]
ReadSize == lastOp.args[3]

Min(a, b) == IF a <= b THEN a ELSE b

C30_ReadWithinMessage ==
    (lastOp.op = "att_read_callback" /\ lastOp.args[1] = "TX_VALUE") =>
        /\ ble.copied = IF ReadOffset <= ble.message_length
                        THEN Min(ReadSize, ble.message_length - ReadOffset)
                        ELSE 0
        /\ ReadOffset + ble.copied <= Max(ble.message_length, ReadOffset)

\* What the read does return for offsets inside the stored message.
C30_ReadInsideMessage ==
    (lastOp.op = "att_read_callback" /\ lastOp.args[1] = "TX_VALUE"
       /\ ReadOffset <= ble.message_length) =>
        ble.copied = Min(ReadSize, ble.message_length - ReadOffset)

(***************************************************************************)
(* TCP client: one blocking request over lwIP's raw API                    *)
(***************************************************************************)
TCP_CLIENT_SUCCESS == 0
TCP_CLIENT_ERROR_WIFI == -1
TCP_CLIENT_ERROR_INVALID == -2
TCP_CLIENT_ERROR_MEMORY == -3
TCP_CLIENT_ERROR_CONNECT == -4
TCP_CLIENT_ERROR_TIMEOUT == -5
TCP_CLIENT_ERROR_SEND == -6
TCP_CLIENT_ERROR_RECEIVE == -7

\* tcp_close(client->pcb) / tcp_abort(client->pcb): the call is recorded with
\* the state the pcb was in; a live pcb is given back to lwIP.
Release(t, f) ==
    [t EXCEPT !.releases = Append(t.releases,
                               [f |-> f, pcb |-> t.pcb, was |-> t.pcbs[t.pcb]]),
              !.pcbs[t.pcb] = IF t.pcbs[t.pcb] # "active" THEN t.pcbs[t.pcb]
                              ELSE IF f = "tcp_close" THEN "closed" ELSE "freed"]

\* return code; from tcp_client_send
Return(t, code) == [t EXCEPT !.ret = code, !.pc = "idle"]

TcpCall(name, args, t) ==
    /\ lastOp' = [op |-> name, args |-> args]
    /\ tcp' = t
    /\ UNCHANGED <<oledVars, nOps, pwr, ble>>

\* tcp_client_create(config): malloc leaves the pcb field with whatever the
\* memory held.
tcp_client_create(configOk, mallocOk) ==
    /\ tcp.pc = "none"
    /\ \E garbage \in {0, WildPcb} :
         TcpCall("tcp_client_create", <<configOk, mallocOk>>,
                 IF configOk /\ mallocOk
                 THEN [tcp EXCEPT !.pc = "idle", !.pcb = garbage]
                 ELSE tcp)

\* tcp_client_send up to its first polling loop.  argsOk: client, data,
\* data_length and response are all usable; wifi: tcp_client_wifi_ready();
\* newOk: tcp_new() found memory; connectOk: tcp_connect() returned ERR_OK.
tcp_client_send(argsOk, wifi, newOk, connectOk) ==
    /\ tcp.pc \in {"none", "idle"}
    /\ tcp.sends < MaxTcpSends
    /\ TcpCall("tcp_client_send", <<argsOk, wifi, newOk, connectOk>>,
         IF tcp.pc = "none" \/ ~argsOk
         THEN [tcp EXCEPT !.ret = TCP_CLIENT_ERROR_INVALID]
         ELSE IF ~wifi THEN Return(tcp, TCP_CLIENT_ERROR_WIFI)
         ELSE LET s == [tcp EXCEPT !.connected = FALSE, !.complete = FALSE,
                                   !.success = FALSE, !.deadline = FALSE,
                                   !.connFailed = FALSE, !.sends = tcp.sends + 1]
              IN  IF ~newOk THEN Return([s EXCEPT !.pcb = 0], TCP_CLIENT_ERROR_MEMORY)
                  ELSE LET n == [s EXCEPT !.pcb = s.sends, !.pcbs[s.sends] = "active"]
                       IN  IF ~connectOk
                           THEN Return(Release(n, "tcp_close"), TCP_CLIENT_ERROR_CONNECT)
                           ELSE [n EXCEPT !.pc = "connect_wait"])

\* while (!connected && !complete && !time_reached(connect_timeout))
ConnectWaiting ==
    tcp.pc = "connect_wait" /\ ~tcp.connected /\ ~tcp.complete /\ ~tcp.deadline

\* while (!complete && !time_reached(response_timeout))
ResponseWaiting == tcp.pc = "response_wait" /\ ~tcp.complete /\ ~tcp.deadline

\* cyw43_arch_poll() runs lwIP, which calls back for a live pcb of the client.
Polling == (ConnectWaiting \/ ResponseWaiting) /\ tcp.pcbs[tcp.pcb] = "active"

\* tcp_client_connected_callback(arg, pcb, err)
tcp_client_connected_callback(errOk) ==
    /\ Polling /\ ConnectWaiting
    /\ TcpCall("tcp_client_connected_callback", <<errOk>>,
               IF ~errOk
               THEN [tcp EXCEPT !.success = FALSE, !.complete = TRUE, !.connFailed = TRUE]
               ELSE [tcp EXCEPT !.connected = TRUE])

\* tcp_client_recv_callback(arg, pcb, p, err); p is "null" when the server
\* has closed, else a segment with or without "OK" / "200" in it.
tcp_client_recv_callback(p) ==
    /\ Polling /\ ResponseWaiting
    /\ TcpCall("tcp_client_recv_callback", <<p>>,
               IF p = "null" THEN [tcp EXCEPT !.complete = TRUE]
               ELSE IF p = "OK" THEN [tcp EXCEPT !.success = TRUE]
               ELSE tcp)

\* tcp_client_error_callback(arg, err); lwIP has freed the pcb before the call.
tcp_client_error_callback ==
    /\ Polling
    /\ TcpCall("tcp_client_error_callback", <<>>,
               [tcp EXCEPT !.pcbs[tcp.pcb] = "freed",
                           !.success = FALSE, !.complete = TRUE,
                           !.connFailed = (tcp.pc = "connect_wait")])

\* time_reached() of the loop being waited in becomes true.
time_reached ==
    /\ ConnectWaiting \/ ResponseWaiting
    /\ TcpCall("time_reached", <<>>, [tcp EXCEPT !.deadline = TRUE])

\* tcp_client_send from the end of the connect loop to the response loop.
\* writeOk: tcp_write() returned ERR_OK.
tcp_client_send_connected(writeOk) ==
    /\ tcp.pc = "connect_wait" /\ ~ConnectWaiting
    /\ TcpCall("tcp_client_send/connected", <<writeOk>>,
               IF ~tcp.connected
               THEN Return(Release(tcp, "tcp_close"), TCP_CLIENT_ERROR_TIMEOUT)
               ELSE IF ~writeOk
               THEN Return(Release(tcp, "tcp_close"), TCP_CLIENT_ERROR_SEND)
               ELSE [tcp EXCEPT !.pc = "response_wait", !.deadline = FALSE])

\* tcp_client_send from the end of the response loop to its return.
tcp_client_send_responded ==
    /\ tcp.pc = "response_wait" /\ ~ResponseWaiting
    /\ TcpCall("tcp_client_send/responded", <<>>,
               LET c == Release(tcp, "tcp_close")
               IN  IF ~c.complete THEN Return(c, TCP_CLIENT_ERROR_TIMEOUT)
                   ELSE Return(c, IF c.success THEN TCP_CLIENT_SUCCESS
                                               ELSE TCP_CLIENT_ERROR_RECEIVE))

\* tcp_client_destroy(client)
tcp_client_destroy ==
    /\ tcp.pc \in {"none", "idle"}
    /\ TcpCall("tcp_client_destroy", <<>>,
               IF tcp.pc = "none" THEN tcp
               ELSE IF tcp.pcb # 0
               THEN [Release(tcp, "tcp_abort") EXCEPT !.pcb = 0, !.pc = "destroyed"]
               ELSE [tcp EXCEPT !.pc = "destroyed"])

TcpNext ==
    \/ \E configOk \in BOOLEAN, mallocOk \in BOOLEAN : tcp_client_create(configOk, mallocOk)
    \/ \E argsOk \in BOOLEAN, wifi \in BOOLEAN, newOk \in BOOLEAN, connectOk \in BOOLEAN :
           tcp_client_send(argsOk, wifi, newOk, connectOk)
    \/ \E errOk \in BOOLEAN : tcp_client_connected_callback(errOk)
    \/ \E p \in {"null", "OK", "other"} : tcp_client_recv_callback(p)
    \/ tcp_client_error_callback
    \/ time_reached
    \/ \E writeOk \in BOOLEAN : tcp_client_send_connected(writeOk)
    \/ tcp_client_send_responded
    \/ tcp_client_destroy

TcpInit ==
    /\ InitCommon
    /\ variant = "SSD1306" /\ ndebug = FALSE
    /\ buf = ClearBuffer /\ prevBuf = buf
    /\ OthersIdle

TcpSpec == TcpInit /\ [][TcpNext]_vars

(***************************************************************************)
(* C25  Across any sequence of tcp_client_send calls followed by           *)
(* tcp_client_destroy, each TCP pcb is released at most once:              *)
(* tcp_client_destroy calls tcp_abort only on a connection that is still   *)
(* active, and neither tcp_close nor tcp_abort is ever invoked on a pcb    *)
(* that tcp_client_send already closed or that lwIP already freed before   *)
(* invoking the error callback.                                            *)
(***************************************************************************)
C25_ReleasedOnce ==
    /\ \A i \in 1 .. Len(tcp.releases) : tcp.releases[i].was = "active"
    /\ \A i \in 1 .. Len(tcp.releases) : \A j \in 1 .. Len(tcp.releases) :
         i < j => tcp.releases[i].pcb # tcp.releases[j].pcb

\* What does hold: tcp_client_send itself never closes a pcb that it has
\* closed before.
C25_SendClosesOncePerPcb ==
    \A i \in 1 .. Len(tcp.releases) : \A j \in 1 .. Len(tcp.releases) :
        (i < j /\ tcp.releases[i].f = "tcp_close" /\ tcp.releases[j].f = "tcp_close")
            => tcp.releases[i].pcb # tcp.releases[j].pcb

(***************************************************************************)
(* C27  tcp_client_send reports the failure that occurred: it returns      *)
(* TCP_CLIENT_ERROR_TIMEOUT only if the connect deadline or the response   *)
(* deadline was reached, TCP_CLIENT_ERROR_CONNECT when the connection      *)
(* attempt itself fails (the connected callback is invoked with an error,  *)
(* or the error callback fires before the connection is established), and  *)
(* TCP_CLIENT_SUCCESS only if the exchange completed and the success flag  *)
(* was set.                                                                *)
(***************************************************************************)
\* tcp_client_send has returned from one of the places behind its loops.
SendReturned ==
    /\ lastOp.op \in {"tcp_client_send/connected", "tcp_client_send/responded"}
    /\ tcp.pc = "idle"

C27_ReportsActualFailure ==
    SendReturned =>
        /\ tcp.ret = TCP_CLIENT_ERROR_TIMEOUT => tcp.deadline
        /\ tcp.connFailed => tcp.ret = TCP_CLIENT_ERROR_CONNECT
        /\ tcp.ret = TCP_CLIENT_SUCCESS => (tcp.complete /\ tcp.success)

\* The part that holds: success is reported only for a completed exchange
\* with the success flag set, and a failed tcp_connect call is a connect error.
C27_SuccessIsReal ==
    /\ (SendReturned /\ tcp.ret = TCP_CLIENT_SUCCESS) =>
         (tcp.complete /\ tcp.success /\ tcp.connected /\ ~tcp.connFailed)
    /\ (lastOp.op = "tcp_client_send" /\ lastOp.args = <<TRUE, TRUE, TRUE, FALSE>>
          /\ tcp.pc = "idle") => tcp.ret = TCP_CLIENT_ERROR_CONNECT

====
